---- MODULE Spec2Model ----
(***************************************************************************)
(* Model of the PDF-to-table extraction pipeline of XLS-Convert:           *)
(*   - src/src/lib/env.ts   (pdf-utils: extractTextFromPdf,                *)
(*     convertPdfPagesToImageUrisIncremental, validateTransactionData,     *)
(*     formatStructuredDataForExcel)                                       *)
(*   - src/src/app/page.tsx (HomePage.handleFileSelect / handleCancel)     *)
(*                                                                         *)
(* Strings are sequences of one-character strings, so that length, trim,   *)
(* ordering and parsing are computed and not assumed.  JavaScript values   *)
(* are tagged records [t, s, n] (see Undef, Null, Str, Num).  Amounts are  *)
(* integers counted in thousandths of the currency unit (0.01 = 10).       *)
(***************************************************************************)
EXTENDS Integers, Sequences, FiniteSets, TLC

(***************************************************************************)
(* Bounds of the model                                                     *)
(***************************************************************************)
\* longest transaction list drawn for validateTransactionData
MaxTx == 2
\* longest transaction list drawn for formatStructuredDataForExcel
MaxFmtTx == 3
\* largest page count of a document
MaxPages == 2
\* transactions per sequence drawn for the date gap check
MaxGapTx == 3
\* transactions in the output of the structuring prompt
MaxFlowTx == 3
\* transactions of the documents formatted for the export
MaxExportTx == 2
\* how many runs of handleFileSelect may be in flight together
MaxRuns == 2
\* how many calls of the error-handling entry points are followed
MaxCalls == 2
\* the largest retries option handed to handleAsyncError
MaxRetries == 3
MaxDownloads == 13
MaxTimers == 1

(***************************************************************************)
(* JavaScript values                                                       *)
(***************************************************************************)
Undef == [t |-> "undefined", s |-> <<>>, n |-> 0]
Null == [t |-> "null", s |-> <<>>, n |-> 0]
Str(s) == [t |-> "string", s |-> s, n |-> 0]
Num(n) == [t |-> "number", s |-> <<>>, n |-> n]

\* JS truthiness of a value: '' and 0 are falsy, as are undefined and null
Truthy(v) == \/ (v.t = "string" /\ v.s # <<>>)
             \/ (v.t = "number" /\ v.n # 0)

\* x !== undefined && x !== null
Defined(v) == v.t # "undefined" /\ v.t # "null"

(***************************************************************************)
(* Strings                                                                 *)
(***************************************************************************)
\* the characters used, in increasing UTF-16 code unit order
AsciiOrder == << "\n", " ", "!", "#", "$", "%", "&", "(", ")",
               "*", "+", ",", "-", ".", "/", "0", "1", "2", "3", "4", "5",
               "6", "7", "8", "9", ":", ";", "<", "=", ">", "?", "@", "A",
               "B", "C", "D", "E", "F", "G", "H", "I", "J", "K", "L", "M",
               "N", "O", "P", "Q", "R", "S", "T", "U", "V", "W", "X", "Y",
               "Z", "[", "]", "^", "_", "a", "b", "c", "d", "e",
               "f", "g", "h", "i", "j", "k", "l", "m", "n", "o", "p", "q",
               "r", "s", "t", "u", "v", "w", "x", "y", "z", "{", "|", "}",
               "~" >>

CharCode(c) == CHOOSE i \in 1..Len(AsciiOrder) : AsciiOrder[i] = c

IsDigit(c) == c \in {"0", "1", "2", "3", "4", "5", "6", "7", "8", "9"}

DigitVal(c) == CharCode(c) - CharCode("0")

IsSpace(c) == c \in {" ", "\n"}

Rep(c, n) == [i \in 1..n |-> c]

RECURSIVE TrimStart(_)
TrimStart(s) == IF s # <<>> /\ IsSpace(Head(s)) THEN TrimStart(Tail(s)) ELSE s

RECURSIVE TrimEnd(_)
TrimEnd(s) == IF s # <<>> /\ IsSpace(s[Len(s)])
              THEN TrimEnd(SubSeq(s, 1, Len(s) - 1)) ELSE s

\* String.prototype.trim
Trim(s) == TrimEnd(TrimStart(s))

\* a < b in the order Array.prototype.sort uses by default (code units)
RECURSIVE StrLess(_, _)
StrLess(a, b) == IF b = <<>> THEN FALSE
                 ELSE IF a = <<>> THEN TRUE
                 ELSE IF Head(a) = Head(b) THEN StrLess(Tail(a), Tail(b))
                 ELSE CharCode(Head(a)) < CharCode(Head(b))

RECURSIVE InsertSorted(_, _)
InsertSorted(x, sorted) ==
    IF sorted = <<>> THEN <<x>>
    ELSE IF StrLess(x, Head(sorted)) THEN <<x>> \o sorted
    ELSE <<Head(sorted)>> \o InsertSorted(x, Tail(sorted))

\* Array.prototype.sort() without comparator: stable, by code units
RECURSIVE SortStrings(_)
SortStrings(xs) == IF xs = <<>> THEN <<>>
                   ELSE InsertSorted(xs[Len(xs)], SortStrings(SubSeq(xs, 1, Len(xs) - 1)))

(***************************************************************************)
(* Dates: new Date("YYYY-MM-DD").getTime() in days                         *)
(***************************************************************************)
IsLeap(y) == (y % 4 = 0 /\ y % 100 # 0) \/ y % 400 = 0

DaysInMonth(y, m) == IF m = 2 THEN (IF IsLeap(y) THEN 29 ELSE 28)
                     ELSE IF m \in {4, 6, 9, 11} THEN 30 ELSE 31

\* days since 1970-01-01 of a civil date
DaysFromCivil(y, m, d) ==
    LET yy == IF m <= 2 THEN y - 1 ELSE y
        era == yy \div 400
        yoe == yy - era * 400
        mp == (m + 9) % 12
        doy == (153 * mp + 2) \div 5 + d - 1
        doe == yoe * 365 + yoe \div 4 - yoe \div 100 + doy
    IN era * 146097 + doe - 719468

\* /^\d{4}-\d{2}-\d{2}$/
MatchesIsoDate(s) ==
    /\ Len(s) = 10
    /\ \A i \in {1, 2, 3, 4, 6, 7, 9, 10} : IsDigit(s[i])
    /\ s[5] = "-" /\ s[8] = "-"

\* new Date(s): [nan, days]; a string that is no calendar date gives NaN
ParseDate(s) ==
    IF ~MatchesIsoDate(s) THEN [nan |-> TRUE, days |-> 0]
    ELSE LET y == DigitVal(s[1]) * 1000 + DigitVal(s[2]) * 100
                  + DigitVal(s[3]) * 10 + DigitVal(s[4])
             m == DigitVal(s[6]) * 10 + DigitVal(s[7])
             d == DigitVal(s[9]) * 10 + DigitVal(s[10])
         IN IF m \in 1..12 /\ d \in 1..DaysInMonth(y, m)
            THEN [nan |-> FALSE, days |-> DaysFromCivil(y, m, d)]
            ELSE [nan |-> TRUE, days |-> 0]

Abs(x) == IF x < 0 THEN -x ELSE x

RECURSIVE ConcatAll(_)
ConcatAll(ss) == IF ss = <<>> THEN <<>> ELSE Head(ss) \o ConcatAll(Tail(ss))

RECURSIVE SumSeq(_)
SumSeq(ns) == IF ns = <<>> THEN 0 ELSE Head(ns) + SumSeq(Tail(ns))

(***************************************************************************)
(* validateTransactionData (env.ts 589-726)                                *)
(***************************************************************************)
\* an entry of issues[]: the message, as its kind and its interpolated values
Issue(kind, index, d1, d2) == [kind |-> kind, index |-> index, d1 |-> d1, d2 |-> d2]

\* an entry of accuracyWarnings[]
Warning(kind, index, x, y, diff) ==
    [kind |-> kind, index |-> index, x |-> x, y |-> y, diff |-> diff]

\* const tolerance = 0.01, in thousandths
tolerance == 10

\* !v || v.trim() === ''
MissingText(v) == ~Truthy(v) \/ Trim(v.s) = <<>>

\* the first forEach: missing required fields, transaction by transaction
MissingFieldIssues(transactions) ==
    ConcatAll([i \in 1..Len(transactions) |->
        (IF MissingText(transactions[i].date)
         THEN <<Issue("Missing date", i, <<>>, <<>>)>> ELSE <<>>)
        \o (IF MissingText(transactions[i].description)
            THEN <<Issue("Missing description", i, <<>>, <<>>)>> ELSE <<>>)])

\* SortedDates without the call of sort()
SortedDatesUnsorted(transactions) ==
    ConcatAll([i \in 1..Len(transactions) |->
        IF transactions[i].date.t = "string" /\ Trim(transactions[i].date.s) # <<>>
        THEN <<transactions[i].date.s>> ELSE <<>>])

\* transactions.map(t => t.date).filter(string and not blank).sort()
SortedDates(transactions) ==
    SortStrings(ConcatAll([i \in 1..Len(transactions) |->
        IF transactions[i].date.t = "string" /\ Trim(transactions[i].date.s) # <<>>
        THEN <<transactions[i].date.s>> ELSE <<>>]))

\* DateGapExceeds with the comparison daysDiff >= 30
DateGapExceedsInclusive(prev, curr) ==
    LET p == ParseDate(prev)
        c == ParseDate(curr)
    IN ~p.nan /\ ~c.nan /\ Abs(c.days - p.days) >= 30

\* daysDiff > 30 for two date strings; a NaN difference compares false
DateGapExceeds(prev, curr) ==
    LET p == ParseDate(prev)
        c == ParseDate(curr)
    IN ~p.nan /\ ~c.nan /\ Abs(c.days - p.days) > 30

\* the loop over adjacent sorted dates
DateGapIssues(transactions) ==
    LET dates == SortedDates(transactions)
    IN IF Len(dates) > 1
       THEN ConcatAll([j \in 1..(Len(dates) - 1) |->
                IF DateGapExceeds(dates[j], dates[j + 1])
                THEN <<Issue("Potential missing transactions", 0, dates[j], dates[j + 1])>>
                ELSE <<>>])
       ELSE <<>>

\* v || 0
OrZero(v) == IF Truthy(v) THEN v.n ELSE 0

ExtractedTotalDebits(transactions) ==
    SumSeq([i \in 1..Len(transactions) |-> OrZero(transactions[i].debit)])

ExtractedTotalCredits(transactions) ==
    SumSeq([i \in 1..Len(transactions) |-> OrZero(transactions[i].credit)])

\* ExceedsTolerance with the comparison diff >= tolerance
ExceedsToleranceInclusive(diff) == diff >= tolerance

\* diff > tolerance
ExceedsTolerance(diff) == diff > tolerance

\* one footer comparison: if the footer field is set and differs beyond tolerance
TotalMismatch(kind, extracted, footerValue) ==
    IF Defined(footerValue) /\ ExceedsTolerance(Abs(extracted - footerValue.n))
    THEN <<Warning(kind, 0, extracted, footerValue.n, Abs(extracted - footerValue.n))>>
    ELSE <<>>

ClosingBalanceMismatch(transactions, footer) ==
    IF Defined(footer.closingBalance) /\ Len(transactions) > 0
    THEN LET lastTransaction == transactions[Len(transactions)]
         IN IF Defined(lastTransaction.balance)
            THEN TotalMismatch("Closing balance mismatch",
                               lastTransaction.balance.n, footer.closingBalance)
            ELSE <<>>
    ELSE <<>>

\* if (footer) { ... }: the accuracy warnings against the footer totals
FooterWarnings(transactions, footer) ==
    IF ~footer.present THEN <<>>
    ELSE TotalMismatch("Total debits mismatch",
                       ExtractedTotalDebits(transactions), footer.totalDebits)
         \o TotalMismatch("Total credits mismatch",
                          ExtractedTotalCredits(transactions), footer.totalCredits)
         \o ClosingBalanceMismatch(transactions, footer)
         \o TotalMismatch("Total withdrawals mismatch",
                          ExtractedTotalDebits(transactions), footer.totalWithdrawals)
         \o TotalMismatch("Total deposits mismatch",
                          ExtractedTotalCredits(transactions), footer.totalDeposits)

\* (n.toString().split('.')[1] || '').length > 2, n in thousandths
MoreThanTwoDecimals(n) == n % 10 # 0

PrecisionWarning(kind, i, v) ==
    IF Defined(v) /\ MoreThanTwoDecimals(v.n)
    THEN <<Warning(kind, i, v.n, 0, 0)>> ELSE <<>>

\* the second forEach: numeric precision of debit, credit, balance
PrecisionWarnings(transactions) ==
    ConcatAll([i \in 1..Len(transactions) |->
        PrecisionWarning("Debit has more than 2 decimal places", i, transactions[i].debit)
        \o PrecisionWarning("Credit has more than 2 decimal places", i, transactions[i].credit)
        \o PrecisionWarning("Balance has more than 2 decimal places", i, transactions[i].balance)])

\* if (!transactions || transactions.length === 0): the early return
NoTransactions(transactions) == Len(transactions) = 0

\* validateTransactionData with isValid also requiring no accuracy warning
validateTransactionDataStrict(transactions, footer) ==
    IF NoTransactions(transactions)
    THEN [isValid |-> FALSE,
          issues |-> <<Issue("No transactions found", 0, <<>>, <<>>)>>,
          accuracyWarnings |-> <<>>]
    ELSE LET issues == MissingFieldIssues(transactions) \o DateGapIssues(transactions)
             accuracyWarnings == FooterWarnings(transactions, footer)
                                 \o PrecisionWarnings(transactions)
         IN [isValid |-> Len(issues) = 0 /\ Len(accuracyWarnings) = 0,
             issues |-> issues,
             accuracyWarnings |-> accuracyWarnings]

validateTransactionData(transactions, footer) ==
    IF NoTransactions(transactions)
    THEN [isValid |-> FALSE,
          issues |-> <<Issue("No transactions found", 0, <<>>, <<>>)>>,
          accuracyWarnings |-> <<>>]
    ELSE LET issues == MissingFieldIssues(transactions) \o DateGapIssues(transactions)
             accuracyWarnings == FooterWarnings(transactions, footer)
                                 \o PrecisionWarnings(transactions)
         IN [isValid |-> Len(issues) = 0,
             issues |-> issues,
             accuracyWarnings |-> accuracyWarnings]

(***************************************************************************)
(* formatStructuredDataForExcel (env.ts 732-819)                           *)
(***************************************************************************)
\* the cell labels written by formatStructuredDataForExcel
Labels ==
    [bankName |->
         <<"B", "a", "n", "k", " ", "N", "a", "m", "e", ":">>,
     accountNumber |->
         <<"A", "c", "c", "o", "u", "n", "t", " ", "N", "u", "m", "b", "e", "r", ":">>,
     accountHolder |->
         <<"A", "c", "c", "o", "u", "n", "t", " ", "H", "o", "l", "d", "e", "r", ":">>,
     statementPeriod |->
         <<"S", "t", "a", "t", "e", "m", "e", "n", "t", " ", "P", "e", "r", "i", "o", "d", ":">>,
     statementDate |->
         <<"S", "t", "a", "t", "e", "m", "e", "n", "t", " ", "D", "a", "t", "e", ":">>,
     openingBalance |->
         <<"O", "p", "e", "n", "i", "n", "g", " ", "B", "a", "l", "a", "n", "c", "e", ":">>,
     date |->
         <<"D", "a", "t", "e">>,
     description |->
         <<"D", "e", "s", "c", "r", "i", "p", "t", "i", "o", "n">>,
     paidOut |->
         <<"P", "a", "i", "d", " ", "O", "u", "t">>,
     paidIn |->
         <<"P", "a", "i", "d", " ", "I", "n">>,
     balance |->
         <<"B", "a", "l", "a", "n", "c", "e">>,
     closingBalance |->
         <<"C", "l", "o", "s", "i", "n", "g", " ", "B", "a", "l", "a", "n", "c", "e", ":">>,
     totalDebits |->
         <<"T", "o", "t", "a", "l", " ", "D", "e", "b", "i", "t", "s", ":">>,
     totalCredits |->
         <<"T", "o", "t", "a", "l", " ", "C", "r", "e", "d", "i", "t", "s", ":">>,
     totalWithdrawals |->
         <<"T", "o", "t", "a", "l", " ", "W", "i", "t", "h", "d", "r", "a", "w", "a", "l", "s", ":">>,
     totalDeposits |->
         <<"T", "o", "t", "a", "l", " ", "D", "e", "p", "o", "s", "i", "t", "s", ":">>,
     summary |->
         <<"S", "u", "m", "m", "a", "r", "y", ":">>]

NoDataMessage == <<"N", "o", " ", "f", "i", "n", "a", "n", "c", "i", "a",
    "l", " ", "t", "r", "a", "n", "s", "a", "c", "t", "i", "o", "n", " ",
    "d", "a", "t", "a", " ", "c", "o", "u", "l", "d", " ", "b", "e", " ",
    "e", "x", "t", "r", "a", "c", "t", "e", "d", " ", "f", "r", "o", "m",
    " ", "t", "h", "e", " ", "d", "o", "c", "u", "m", "e", "n", "t", ".">>

\* [["No financial transaction data could be extracted from the document."]]
NoDataMatrix == << <<Str(NoDataMessage)>> >>

\* if (v) push([label, v])
RowIfTruthy(label, v) == IF Truthy(v) THEN << <<Str(label), v>> >> ELSE <<>>

\* if (v !== undefined && v !== null) push([label, v])
RowIfDefined(label, v) == IF Defined(v) THEN << <<Str(label), v>> >> ELSE <<>>

\* if (header) { ...; excelData.push([]) }
HeaderRows(header) ==
    IF ~header.present THEN <<>>
    ELSE RowIfTruthy(Labels.bankName, header.bankName)
         \o RowIfTruthy(Labels.accountNumber, header.accountNumber)
         \o RowIfTruthy(Labels.accountHolder, header.accountHolderName)
         \o RowIfTruthy(Labels.statementPeriod, header.statementPeriod)
         \o RowIfTruthy(Labels.statementDate, header.statementDate)
         \o RowIfDefined(Labels.openingBalance, header.openingBalance)
         \o << <<>> >>

transactionHeaders ==
    <<Str(Labels.date), Str(Labels.description), Str(Labels.paidOut), Str(Labels.paidIn), Str(Labels.balance)>>

\* v || ''
OrEmpty(v) == IF Truthy(v) THEN v ELSE Str(<<>>)

\* v !== undefined && v !== null ? v : null
OrNull(v) == IF Defined(v) THEN v ELSE Null

\* transactions.map(t => [...])
DataRows(transactions) ==
    [i \in 1..Len(transactions) |->
        <<OrEmpty(transactions[i].date), OrEmpty(transactions[i].description),
          OrNull(transactions[i].debit), OrNull(transactions[i].credit),
          OrNull(transactions[i].balance)>>]

\* if (footer) { push([]); ... }
FooterRows(footer) ==
    IF ~footer.present THEN <<>>
    ELSE << <<>> >>
         \o RowIfDefined(Labels.closingBalance, footer.closingBalance)
         \o RowIfDefined(Labels.totalDebits, footer.totalDebits)
         \o RowIfDefined(Labels.totalCredits, footer.totalCredits)
         \o RowIfDefined(Labels.totalWithdrawals, footer.totalWithdrawals)
         \o RowIfDefined(Labels.totalDeposits, footer.totalDeposits)
         \o RowIfTruthy(Labels.summary, footer.summary)

\* excelData.length === (header ? 7 : 1)
OnlyHeadersPresent(header, excelData) ==
    Len(excelData) = (IF header.present THEN 7 ELSE 1)

formatStructuredDataForExcel(structuredData) ==
    IF structuredData.isNull \/ Len(structuredData.transactions) = 0
    THEN NoDataMatrix
    ELSE LET header == structuredData.header
             transactions == structuredData.transactions
             footer == structuredData.footer
             excelData == HeaderRows(header) \o <<transactionHeaders>>
                          \o DataRows(transactions)
         IN IF OnlyHeadersPresent(header, excelData)
            THEN NoDataMatrix
            ELSE excelData \o FooterRows(footer)

(***************************************************************************)
(* structurePdfDataFlow (structure-pdf-data-flow.ts 178-215)               *)
(***************************************************************************)
\* IsCompleteTransaction without the calls of trim()
IsCompleteTransactionUntrimmed(t) ==
    /\ Truthy(t.date) /\ t.date.t = "string"
    /\ Truthy(t.description) /\ t.description.t = "string"

\* hasDate && hasDescription
IsCompleteTransaction(t) ==
    /\ Truthy(t.date) /\ t.date.t = "string" /\ Trim(t.date.s) # <<>>
    /\ Truthy(t.description) /\ t.description.t = "string"
    /\ Trim(t.description.s) # <<>>

\* how the flow settles on the output of its prompt
structurePdfDataFlow(output) ==
    IF output.isNull
    THEN [outcome |-> "thrown",
          error |-> [cls |-> "Error", name |-> "Error",
                     message |-> "AI failed to structure transaction data. Output was null.",
                     cancelled |-> FALSE, network |-> FALSE],
          data |-> [isNull |-> TRUE, header |-> output.header,
                    transactions |-> <<>>, footer |-> output.footer]]
    ELSE [outcome |-> "returned",
          error |-> [cls |-> "Error", name |-> "Error", message |-> "",
                     cancelled |-> FALSE, network |-> FALSE],
          data |-> [isNull |-> FALSE, header |-> output.header,
                    transactions |->
                        IF ~output.hasTransactions THEN <<>>
                        ELSE SelectSeq(output.transactions, IsCompleteTransaction),
                    footer |-> output.footer]]

(***************************************************************************)
(* exportToExcel (env.ts 171-370)                                          *)
(*                                                                         *)
(* A worksheet cell is [present, v, t, z]: aoa_to_sheet makes no cell for  *)
(* null, a string cell of type 's' and a number cell of type 'n'.  A date  *)
(* value is [t |-> "date", n |-> days since 1970-01-01].                   *)
(***************************************************************************)
\* toLowerCase() of one character
LowerChar(c) ==
    IF CharCode(c) >= CharCode("A") /\ CharCode(c) <= CharCode("Z")
    THEN AsciiOrder[CharCode(c) + (CharCode("a") - CharCode("A"))]
    ELSE c

ToLowerCase(s) == [i \in 1..Len(s) |-> LowerChar(s[i])]

RECURSIVE DigitsOf(_)
DigitsOf(k) ==
    (IF k >= 10 THEN DigitsOf(k \div 10) ELSE <<>>)
    \o <<AsciiOrder[CharCode("0") + (k % 10)]>>

\* String(x) of a number held in thousandths
NumberToString(n) ==
    LET a == Abs(n)
        f == a % 1000
        frac == IF f = 0 THEN <<>>
                ELSE IF f % 100 = 0 THEN <<".">> \o DigitsOf(f \div 100)
                ELSE IF f % 10 = 0
                     THEN <<".">> \o DigitsOf(f \div 100) \o DigitsOf((f \div 10) % 10)
                     ELSE <<".">> \o DigitsOf(f \div 100) \o DigitsOf((f \div 10) % 10)
                          \o DigitsOf(f % 10)
    IN (IF n < 0 THEN <<"-">> ELSE <<>>) \o DigitsOf(a \div 1000) \o frac

\* String(v) of a cell value that is not null
CellToString(v) == IF v.t = "number" THEN NumberToString(v.n) ELSE v.s

\* String(row[0] || '').toLowerCase()
FirstCellLower(row) ==
    IF Len(row) = 0 \/ ~Truthy(row[1]) THEN <<>> ELSE ToLowerCase(CellToString(row[1]))

\* FindHeaderRow without toLowerCase()
FindHeaderRowExact(data) ==
    LET hits == {i \in 1..Len(data) :
                    /\ Len(data[i]) >= 5
                    /\ Truthy(data[i][1])
                    /\ CellToString(data[i][1]) = ToLowerCase(Labels.date)}
    IN IF hits = {} THEN -1
       ELSE (CHOOSE i \in hits : \A j \in hits : i <= j) - 1

\* the first row of at least 5 cells whose first cell reads 'date'; -1 if none
FindHeaderRow(data) ==
    LET hits == {i \in 1..Len(data) :
                    Len(data[i]) >= 5 /\ FirstCellLower(data[i]) = ToLowerCase(Labels.date)}
    IN IF hits = {} THEN -1
       ELSE (CHOOSE i \in hits : \A j \in hits : i <= j) - 1

\* first cell is empty or one of the footer labels
EndsTable(row) ==
    Len(row) > 0 /\
    FirstCellLower(row) \in
        {<<>>,
         <<"c", "l", "o", "s", "i", "n", "g", " ", "b", "a", "l", "a", "n", "c", "e">>,
         <<"t", "o", "t", "a", "l", " ", "d", "e", "b", "i", "t", "s">>,
         <<"t", "o", "t", "a", "l", " ", "c", "r", "e", "d", "i", "t", "s">>,
         <<"s", "u", "m", "m", "a", "r", "y">>}

\* rows are numbered from 0 as in the code
findTransactionTableBounds(data) ==
    LET headerRow == FindHeaderRow(data)
    IN IF headerRow = -1
       THEN [startRow |-> 0, endRow |-> Len(data) - 1, headerRow |-> 0]
       ELSE LET ends == {i \in (headerRow + 1)..(Len(data) - 1) : EndsTable(data[i + 1])}
                endRow == IF ends = {} THEN Len(data) - 1
                          ELSE (CHOOSE i \in ends : \A j \in ends : i <= j) - 1
            IN [startRow |-> headerRow, endRow |-> endRow, headerRow |-> headerRow]

\* validateDataBeforeExport: the error, or "" when the data is valid (every
\* cell of a drawn matrix is null, a string or a number)
validateDataBeforeExport(data) ==
    IF Len(data) = 0 THEN "No data to export" ELSE ""

NoCell == [present |-> FALSE, v |-> Null, t |-> "", z |-> ""]

\* the cell XLSX.utils.aoa_to_sheet makes of one value
SheetCell(v) ==
    IF ~Defined(v) THEN NoCell
    ELSE [present |-> TRUE, v |-> v, t |-> IF v.t = "number" THEN "n" ELSE "s", z |-> ""]

\* new Date(s + 'T00:00:00') when it is no NaN
DateValue(s) == [t |-> "date", s |-> <<>>, n |-> ParseDate(s).days]

\* TypeCell with numbers outside the table typed as text
TypeCellTextOutside(cell, row, col, tableBounds) ==
    LET isInTransactionTable == row >= tableBounds.startRow /\ row <= tableBounds.endRow
        isHeaderRow == row = tableBounds.headerRow
        isNumericColumn == isInTransactionTable /\ col \in {2, 3, 4}
        isDateColumn == isInTransactionTable /\ col = 0 /\ ~isHeaderRow
    IN IF ~cell.present THEN cell
       ELSE IF isNumericColumn /\ ~isHeaderRow /\ cell.v.t = "number"
       THEN [cell EXCEPT !.z = "#,##0.00", !.t = "n"]
       ELSE IF isDateColumn /\ cell.v.t = "string" /\ MatchesIsoDate(cell.v.s)
       THEN IF ~ParseDate(cell.v.s).nan
            THEN [cell EXCEPT !.v = DateValue(cell.v.s), !.t = "d", !.z = "yyyy-mm-dd"]
            ELSE [cell EXCEPT !.t = "s"]
       ELSE [cell EXCEPT !.t = "s"]

\* TypeCell with every matching string of column 0 taken for a date
TypeCellDatesAnywhere(cell, row, col, tableBounds) ==
    LET isInTransactionTable == row >= tableBounds.startRow /\ row <= tableBounds.endRow
        isHeaderRow == row = tableBounds.headerRow
        isNumericColumn == isInTransactionTable /\ col \in {2, 3, 4}
        isDateColumn == col = 0
    IN IF ~cell.present THEN cell
       ELSE IF isNumericColumn /\ ~isHeaderRow /\ cell.v.t = "number"
       THEN [cell EXCEPT !.z = "#,##0.00", !.t = "n"]
       ELSE IF isDateColumn /\ cell.v.t = "string" /\ MatchesIsoDate(cell.v.s)
       THEN IF ~ParseDate(cell.v.s).nan
            THEN [cell EXCEPT !.v = DateValue(cell.v.s), !.t = "d", !.z = "yyyy-mm-dd"]
            ELSE [cell EXCEPT !.t = "s"]
       ELSE IF cell.v.t = "number"
       THEN [cell EXCEPT !.z = "#,##0.00", !.t = "n"]
       ELSE [cell EXCEPT !.t = "s"]

\* the body of the loop over the cells of the sheet (env.ts 266-304)
TypeCell(cell, row, col, tableBounds) ==
    LET isInTransactionTable == row >= tableBounds.startRow /\ row <= tableBounds.endRow
        isHeaderRow == row = tableBounds.headerRow
        isNumericColumn == isInTransactionTable /\ col \in {2, 3, 4}
        isDateColumn == isInTransactionTable /\ col = 0 /\ ~isHeaderRow
    IN IF ~cell.present THEN cell
       ELSE IF isNumericColumn /\ ~isHeaderRow /\ cell.v.t = "number"
       THEN [cell EXCEPT !.z = "#,##0.00", !.t = "n"]
       ELSE IF isDateColumn /\ cell.v.t = "string" /\ MatchesIsoDate(cell.v.s)
       THEN IF ~ParseDate(cell.v.s).nan
            THEN [cell EXCEPT !.v = DateValue(cell.v.s), !.t = "d", !.z = "yyyy-mm-dd"]
            ELSE [cell EXCEPT !.t = "s"]
       ELSE IF cell.v.t = "number"
       THEN [cell EXCEPT !.z = "#,##0.00", !.t = "n"]
       ELSE [cell EXCEPT !.t = "s"]

Max(a, b) == IF a > b THEN a ELSE b
Min(a, b) == IF a < b THEN a ELSE b

\* the inner loop over the rows for one column (env.ts 317-326), col from 0
RECURSIVE WidthAfterRows(_, _, _, _)
WidthAfterRows(data, col, row, maxWidth) ==
    IF row > Len(data) THEN maxWidth
    ELSE IF col + 1 <= Len(data[row]) /\ Defined(data[row][col + 1])
    THEN WidthAfterRows(data, col, row + 1,
             Min(Max(Len(CellToString(data[row][col + 1])), maxWidth) + 2, 50))
    ELSE WidthAfterRows(data, col, row + 1, maxWidth)

\* the width of one column (env.ts 316-335)
ColumnWidth(data, col) ==
    LET w == WidthAfterRows(data, col, 1, 10)
    IN CASE col = 0 -> Max(w, 12)
         [] col = 1 -> Max(w, 40)
         [] col \in {2, 3} -> Max(w, 15)
         [] col = 4 -> Max(w, 18)
         [] OTHER -> w

\* Math.max(...data.map(row => row.length))
MaxCols(data) ==
    CHOOSE n \in {Len(data[i]) : i \in 1..Len(data)} :
        \A i \in 1..Len(data) : Len(data[i]) <= n

NoWorksheet ==
    [outcome |-> "none", message |-> "", cells |-> <<>>, cols |-> <<>>,
     freeze |-> [ySplit |-> -1, topLeftRow |-> -1],
     tableBounds |-> [startRow |-> -1, endRow |-> -1, headerRow |-> -1]]

\* the whole function; writeFails: XLSX.writeFile throws
exportToExcel(data, writeFails) ==
    IF validateDataBeforeExport(data) # ""
    THEN [NoWorksheet EXCEPT !.outcome = "thrown",
                             !.message = validateDataBeforeExport(data)]
    ELSE LET tableBounds == findTransactionTableBounds(data)
         IN [outcome |-> IF writeFails THEN "thrown" ELSE "written",
             message |-> IF writeFails THEN "Failed to export Excel file" ELSE "",
             cells |-> [r \in 1..Len(data) |->
                          [c \in 1..Len(data[r]) |->
                              TypeCell(SheetCell(data[r][c]), r - 1, c - 1, tableBounds)]],
             cols |-> [c \in 1..MaxCols(data) |-> ColumnWidth(data, c - 1)],
             freeze |-> [ySplit |-> tableBounds.headerRow + 1,
                         topLeftRow |-> tableBounds.headerRow + 1],
             tableBounds |-> tableBounds]

(***************************************************************************)
(* State                                                                   *)
(***************************************************************************)
VARIABLES
    dataPc,          \* "input", "validated" or "formatted"
    structuredData,  \* the StructuredPdfDataOutput handed to the function
    validation,      \* what validateTransactionData returned
    excelData,       \* what formatStructuredDataForExcel returned
    consoleWarn,     \* the console.warn calls of formatStructuredDataForExcel
    flowOutput,      \* what the prompt of structurePdfDataFlow resolved with
    flowResult,      \* how structurePdfDataFlow settled
    worksheet,       \* the sheet exportToExcel built of excelData
    response,        \* the last call of createErrorResponse or handleError
    retry,           \* the call of handleAsyncError
    upload,          \* the call of uploadPdfAndGetCsv
    history,         \* the download history in local storage, and the clock
    \* HomePage (page.tsx 62-84)
    pc,                  \* the await handleFileSelect is suspended at
    aborted,             \* signal.aborted of the run's AbortController
    abortControllerRef,  \* abortControllerRef.current is not null
    isLoading,
    loadingStep,
    error,
    selectedFile,        \* selectedFile is not null
    excelReadyData,
    showLimitDialog,
    toasts,              \* the toast() calls, in order
    recordConversionCalls,
    numPages,            \* pdf.numPages of the selected document (0: not yet read)
    directText,          \* what extractTextFromPdf returned
    ocrTextFromAllPages,
    rawTextOutput,
    ext,                 \* the call of extractTextFromPdf
    ocr,                 \* the call of convertPdfPagesToImageUrisIncremental
    logged,              \* the logError calls, in order
    hist,                \* what happened in the run, for the properties
    overlap              \* the runs of handleFileSelect in flight together

dataVars == <<dataPc, structuredData, validation, excelData, consoleWarn>>

fnVars == <<flowOutput, flowResult, worksheet, response, retry, upload, history>>

pipeVars == <<pc, aborted, abortControllerRef, isLoading, loadingStep, error,
              selectedFile, excelReadyData, showLimitDialog, toasts,
              recordConversionCalls, numPages, directText, ocrTextFromAllPages,
              rawTextOutput, ext, ocr, logged, hist, overlap>>

vars == <<dataVars, fnVars, pipeVars>>

(***************************************************************************)
(* Inputs of the pure functions                                            *)
(***************************************************************************)

\* date cells: 2024-01-01, the days 30, 31 and 74 days after it, a cell that
\* is text and no date, and a cell of the date pattern that is no date
Dates ==
    [d0101 |-> <<"2", "0", "2", "4", "-", "0", "1", "-", "0", "1">>,
     d0131 |-> <<"2", "0", "2", "4", "-", "0", "1", "-", "3", "1">>,
     d0201 |-> <<"2", "0", "2", "4", "-", "0", "2", "-", "0", "1">>,
     d0315 |-> <<"2", "0", "2", "4", "-", "0", "3", "-", "1", "5">>,
     na |-> <<"n", "/", "a">>,
     invalid |-> <<"2", "0", "2", "4", "-", "1", "3", "-", "4", "5">>]

NoHeader ==
    [present |-> FALSE, bankName |-> Undef, accountNumber |-> Undef,
     accountHolderName |-> Undef, statementPeriod |-> Undef,
     statementDate |-> Undef, openingBalance |-> Undef]

NoFooter ==
    [present |-> FALSE, closingBalance |-> Undef, totalDebits |-> Undef,
     totalCredits |-> Undef, totalWithdrawals |-> Undef,
     totalDeposits |-> Undef, summary |-> Undef]

NullData ==
    [isNull |-> TRUE, header |-> NoHeader, transactions |-> <<>>, footer |-> NoFooter]

NoValidation == [isValid |-> FALSE, issues |-> <<>>, accuracyWarnings |-> <<>>]

NoWarn == [issues |-> FALSE, accuracy |-> FALSE]

SeqsUpTo(S, n) == UNION {[1..k -> S] : k \in 0..n}

ValDates == {Undef, Str(<<>>), Str(<<" ">>), Str(Dates.d0101), Str(Dates.d0131),
             Str(Dates.d0201), Str(Dates.na)}

ValDescriptions == {Str(<<>>), Str(<<"X">>)}

ValDebits == {Undef, Num(10), Num(24500)}

ValTransactions ==
    [date : ValDates, description : ValDescriptions, debit : ValDebits,
     credit : {Undef}, balance : {Null}]

ValFooters ==
    {NoFooter} \cup
    [present : {TRUE}, closingBalance : {Undef},
     totalDebits : {Undef, Num(0), Num(20), Num(24500)},
     totalCredits : {Undef}, totalWithdrawals : {Undef},
     totalDeposits : {Undef}, summary : {Undef}]

FmtHeaders ==
    {NoHeader} \cup
    [present : {TRUE},
     bankName : {Undef, Str(<<>>), Str(<<"A", "B", "C">>)},
     accountNumber : {Undef, Str(<<"1">>)},
     accountHolderName : {Undef, Str(<<"H">>)},
     statementPeriod : {Undef, Str(<<"P">>)},
     statementDate : {Undef, Str(Dates.d0131)},
     openingBalance : {Undef, Num(0)}]

FmtTransactions ==
    {[date |-> Str(Dates.d0101), description |-> Str(<<"X">>), debit |-> Num(24500),
      credit |-> Undef, balance |-> Num(39975500)],
     [date |-> Str(Dates.d0201), description |-> Str(<<"Y">>), debit |-> Undef,
      credit |-> Num(10), balance |-> Null]}

FmtFooters ==
    {NoFooter,
     [NoFooter EXCEPT !.present = TRUE],
     [NoFooter EXCEPT !.present = TRUE, !.closingBalance = Num(39975500)],
     [NoFooter EXCEPT !.present = TRUE, !.closingBalance = Num(0),
                      !.totalDebits = Num(24500), !.summary = Str(<<"S">>)]}

(***************************************************************************)
(* Errors (unnamed/part_004: types/errors)                                 *)
(*                                                                         *)
(* A thrown value is [cls, name, message, cancelled, network]: its class,  *)
(* its name property, its message, and whether the message includes        *)
(* 'cancelled' and 'network' or 'fetch'.                                   *)
(***************************************************************************)
MkError(cls, name, message, cancelled, network) ==
    [cls |-> cls, name |-> name, message |-> message,
     cancelled |-> cancelled, network |-> network]


\* the errors thrown by the code itself (new Error(message)) and the errors an
\* external call can reject with
Err ==
    [extractCancelled |->
         MkError("Error", "Error", "PDF text extraction was cancelled", TRUE, FALSE),
     convertCancelled |->
         MkError("Error", "Error", "PDF to image conversion was cancelled", TRUE, FALSE),
     noCanvasContext |->
         MkError("Error", "Error", "Could not get canvas context.", FALSE, FALSE),
     ocrNoText |->
         MkError("Error", "Error", "OCR failed to extract any text from the document.", FALSE, FALSE),
     plain |->
         MkError("Error", "Error", "Invalid PDF structure.", FALSE, FALSE),
     msgCancelled |->
         MkError("Error", "Error", "Rendering cancelled, page 1", TRUE, FALSE),
     msgNetwork |->
         MkError("Error", "Error", "Failed to fetch", FALSE, TRUE),
     abort |->
         MkError("Error", "AbortError", "The operation was aborted.", FALSE, FALSE),
     service |->
         MkError("Error", "Error", "An error occurred in the Server Components render.", FALSE, FALSE),
     notReadable |->
         MkError("Error", "NotReadableError", "The requested file could not be read.", FALSE, FALSE),
     chunkLoad |->
         MkError("Error", "ChunkLoadError", "Loading chunk failed.", FALSE, FALSE)]

\* new ProcessingCancelledError(message)
ProcessingCancelledError(message) ==
    MkError("ProcessingCancelledError", "ProcessingCancelledError", message, TRUE, FALSE)

\* new NetworkError(message)
NetworkError(message) == MkError("NetworkError", "NetworkError", message, FALSE, FALSE)


\* what pdf.js (getDocument, getPage, getTextContent, render) can reject with
PdfErrors == {Err.plain, Err.msgCancelled, Err.msgNetwork}

\* what a server action (extractTextFromImage, structurePdfData) can reject with
ActionErrors == {Err.service, Err.abort}

\* isProcessingCancelledError(error)
isProcessingCancelledError(e) == e.cls = "ProcessingCancelledError"

\* isProcessingCancelledError(err) || (err instanceof Error && err.name === 'AbortError')
IsCancellation(e) == isProcessingCancelledError(e) \/ e.name = "AbortError"

\* signal?.aborted || (error instanceof Error && error.message.includes('cancelled'))
TreatedAsCancelled(e, signalAborted) == signalAborted \/ e.cancelled

\* the catch block shared by extractTextFromPdf (env.ts 422-435) and
\* convertPdfPagesToImageUrisIncremental (env.ts 560-573): the error thrown on
CatchPdfError(e, signalAborted, cancelledMessage, networkMessage, failedMessage) ==
    IF TreatedAsCancelled(e, signalAborted)
    THEN ProcessingCancelledError(cancelledMessage)
    ELSE IF e.network THEN NetworkError(networkMessage)
    ELSE MkError("Error", "Error", failedMessage, FALSE, FALSE)

\* the logError calls of that catch block
CatchPdfLog(e, signalAborted, operation) ==
    IF TreatedAsCancelled(e, signalAborted) THEN <<>>
    ELSE << [operation |-> operation, error |-> e] >>

ExtractCatch(e, signalAborted) ==
    CatchPdfError(e, signalAborted, "PDF text extraction was cancelled",
        "Network error while extracting text from PDF. Please check your connection and try again.",
        "Failed to extract text from PDF. Please ensure the file is a valid PDF.")

ConvertCatch(e, signalAborted) ==
    CatchPdfError(e, signalAborted, "PDF to image conversion was cancelled",
        "Network error while converting PDF pages to images. Please check your connection and try again.",
        "Failed to convert PDF pages to images. Please ensure the file is a valid PDF.")

\* how a call ended, from the error it threw
OutcomeOf(thrown) ==
    IF isProcessingCancelledError(thrown) THEN "cancelled"
    ELSE IF thrown.cls = "NetworkError" THEN "network" ELSE "error"

(***************************************************************************)
(* HomePage state (page.tsx)                                               *)
(***************************************************************************)
(* The error-handling entry points: getUserFriendlyErrorMessage and        *)
(* getErrorStatusCode (types/errors.ts), createErrorResponse               *)
(* (error-handler.ts 60-104) and useErrorHandler.handleError               *)
(* (use-error-handler.tsx 24-48).  The errors of the model are plain       *)
(* Errors, NetworkErrors without a status code and                         *)
(* ProcessingCancelledErrors.                                              *)
(***************************************************************************)
\* getUserFriendlyErrorMessage(error), as a prefix and the error's message
getUserFriendlyErrorMessage(e) ==
    IF e.cls = "NetworkError"
    THEN [prefix |-> "Network error: ", message |-> e.message]
    ELSE [prefix |-> "", message |-> e.message]

\* getErrorStatusCode(error): no error of the model carries a status code
getErrorStatusCode(e) == 500

\* createErrorResponse(error, context): the logError calls and the response
createErrorResponse(e, isProduction) ==
    LET statusCode == getErrorStatusCode(e)
        userMessage == getUserFriendlyErrorMessage(e)
        nothing == [prefix |-> "", message |-> ""]
        generic == [prefix |-> "",
                    message |-> "An internal server error occurred. Please try again later."]
    IN [logged |-> << [operation |-> "createErrorResponse", error |-> e] >>,
        status |-> IF isProcessingCancelledError(e) THEN 499 ELSE statusCode,
        body |-> IF isProcessingCancelledError(e)
                 THEN [error |-> [prefix |-> "", message |-> "Processing was cancelled"],
                       message |-> userMessage]
                 ELSE IF statusCode >= 400 /\ statusCode < 500
                 THEN [error |-> userMessage, message |-> nothing]
                 ELSE [error |-> IF isProduction THEN generic ELSE userMessage,
                       message |-> nothing]]

\* handleError(error, customMessage) of useErrorHandler({showToast, logError}):
\* the logError calls and the toasts
handleError(e, customMessage, shouldLog, showToast) ==
    IF isProcessingCancelledError(e)
    THEN [logged |-> <<>>, toasts |-> <<>>]
    ELSE [logged |-> IF shouldLog
                     THEN << [operation |-> "handleError", error |-> e] >>
                     ELSE <<>>,
          toasts |-> IF showToast
                     THEN << [variant |-> "destructive", title |-> "Error",
                              description |->
                                  IF customMessage # ""
                                  THEN [prefix |-> "", message |-> customMessage]
                                  ELSE getUserFriendlyErrorMessage(e)] >>
                     ELSE <<>>]

(***************************************************************************)
MIN_TEXT_LENGTH_FOR_TEXT_PDF == 100

Step(label) == [label |-> label, page |-> 0, total |-> 0]

ScanningStep(pageNum, totalPages) ==
    [label |-> "Scanning page", page |-> pageNum, total |-> totalPages]

NoError == [isNull |-> TRUE, message |-> ""]

ErrorMessage(m) == [isNull |-> FALSE, message |-> m]

NoExcel == [isNull |-> TRUE, data |-> <<>>]

ExcelData(d) == [isNull |-> FALSE, data |-> d]

IdleCall ==
    [outcome |-> "idle", pdf |-> "null", destroyCalls |-> 0, page |-> 0,
     text |-> <<>>, canvasLive |-> 0, cbCalls |-> <<>>, recog |-> <<>>,
     abortedAtOpen |-> FALSE, abortedAtSettle |-> FALSE, pdfFault |-> FALSE,
     thrown |-> Err.plain, destroyThrows |-> FALSE, warned |-> 0]

NoHist ==
    [limitRefused |-> FALSE, abortedAtBuffer |-> FALSE, usedOcr |-> FALSE,
     structAborted |-> FALSE, outcome |-> "none", cause |-> "none"]

\* no run started; abortControllerRef.current holds the controller of run
\* ref (0: null)
OverlapIdle ==
    [runs |-> [r \in 1..MaxRuns |-> [pc |-> "idle", aborted |-> FALSE,
                                      outcome |-> "none"]],
     ref |-> 0]

PipeIdle ==
    /\ pc = "idle"
    /\ aborted = FALSE
    /\ abortControllerRef = FALSE
    /\ isLoading = FALSE
    /\ loadingStep = Step("")
    /\ error = NoError
    /\ selectedFile = FALSE
    /\ excelReadyData = NoExcel
    /\ showLimitDialog = FALSE
    /\ toasts = <<>>
    /\ recordConversionCalls = 0
    /\ numPages = 0
    /\ directText = <<>>
    /\ ocrTextFromAllPages = <<>>
    /\ rawTextOutput = <<>>
    /\ ext = IdleCall
    /\ ocr = IdleCall
    /\ logged = <<>>
    /\ hist = NoHist
    /\ overlap = OverlapIdle

\* no prompt output and no call of structurePdfDataFlow yet
NoFlowOutput ==
    [isNull |-> TRUE, hasTransactions |-> FALSE, header |-> NoHeader,
     transactions |-> <<>>, footer |-> NoFooter]

NoFlowResult == [outcome |-> "none", error |-> Err.plain, data |-> NullData]

\* no call of an error-handling entry point yet
NoResponse ==
    [calls |-> 0, fn |-> "none", error |-> Err.plain, status |-> 0,
     body |-> [error |-> [prefix |-> "", message |-> ""],
               message |-> [prefix |-> "", message |-> ""]]]

\* handleAsyncError not called yet
NoRetry ==
    [pc |-> "idle", retries |-> 0, hasOnError |-> FALSE, attempt |-> 0, calls |-> 0,
     failures |-> <<>>, onErrorCalls |-> <<>>, slept |-> <<>>, thrown |-> Err.plain]

\* uploadPdfAndGetCsv not called yet; answer: what the last status request
\* was answered with; permanent: a status request was answered NOT_FOUND,
\* FORBIDDEN or ERROR
NoUpload ==
    [pc |-> "idle", uploads |-> 0, attempt |-> 0, requests |-> 0, sleeps |-> 0,
     answer |-> [status |-> "", message |-> ""], permanent |-> FALSE,
     result |-> "", thrown |-> ""]

\* local storage holds no download history; now: the reading of Date.now()
\* at the last write of the history; written: the handleDownload calls that
\* wrote the history; timers: the pending setTimeout callbacks; toast: the
\* toast() call of the last handleDownload.  A stored file is kept by its
\* timestamp.
NoHistory ==
    [files |-> <<>>, now |-> 0, written |-> 0, timers |-> 0, toast |-> ""]

FnIdle ==
    /\ flowOutput = NoFlowOutput
    /\ flowResult = NoFlowResult
    /\ worksheet = NoWorksheet
    /\ response = NoResponse
    /\ retry = NoRetry
    /\ upload = NoUpload
    /\ history = NoHistory

DataIdle ==
    /\ validation = NoValidation
    /\ excelData = <<>>
    /\ consoleWarn = NoWarn
    /\ FnIdle

DataUnused ==
    /\ dataPc = "input"
    /\ structuredData = NullData
    /\ DataIdle

Init == PipeIdle /\ DataUnused

(***************************************************************************)
(* The pipeline state as one record, so that the synchronous stretches of  *)
(* code between two awaits compose as functions from state to state.       *)
(***************************************************************************)
Cur ==
    [pc |-> pc, aborted |-> aborted, abortControllerRef |-> abortControllerRef,
     isLoading |-> isLoading, loadingStep |-> loadingStep, error |-> error,
     selectedFile |-> selectedFile, excelReadyData |-> excelReadyData,
     showLimitDialog |-> showLimitDialog, toasts |-> toasts,
     recordConversionCalls |-> recordConversionCalls, numPages |-> numPages,
     directText |-> directText, ocrTextFromAllPages |-> ocrTextFromAllPages,
     rawTextOutput |-> rawTextOutput, ext |-> ext, ocr |-> ocr,
     logged |-> logged, hist |-> hist]

Set(st) ==
    /\ pc' = st.pc
    /\ aborted' = st.aborted
    /\ abortControllerRef' = st.abortControllerRef
    /\ isLoading' = st.isLoading
    /\ loadingStep' = st.loadingStep
    /\ error' = st.error
    /\ selectedFile' = st.selectedFile
    /\ excelReadyData' = st.excelReadyData
    /\ showLimitDialog' = st.showLimitDialog
    /\ toasts' = st.toasts
    /\ recordConversionCalls' = st.recordConversionCalls
    /\ numPages' = st.numPages
    /\ directText' = st.directText
    /\ ocrTextFromAllPages' = st.ocrTextFromAllPages
    /\ rawTextOutput' = st.rawTextOutput
    /\ ext' = st.ext
    /\ ocr' = st.ocr
    /\ logged' = st.logged
    /\ hist' = st.hist
    /\ UNCHANGED overlap
    /\ UNCHANGED <<dataVars, fnVars>>

(***************************************************************************)
(* handleFileSelect (page.tsx 138-297): the synchronous stretches          *)
(***************************************************************************)
\* a finally that leaves the loading state as it is
HfsFinallyKeepsLoading(st) ==
    [st EXCEPT !.abortControllerRef = FALSE, !.pc = "done"]

\* finally (page.tsx 289-296)
HfsFinally(st) ==
    [st EXCEPT !.abortControllerRef = FALSE, !.isLoading = FALSE,
               !.loadingStep = Step(""), !.pc = "done"]

\* a catch that counts the run as a conversion
HfsCatchRecords(st, err, cause) ==
    HfsFinally(
        [st EXCEPT !.error = IF IsCancellation(err) THEN NoError
                             ELSE ErrorMessage(err.message),
                   !.selectedFile = FALSE, !.excelReadyData = NoExcel,
                   !.recordConversionCalls = @ + 1,
                   !.hist.outcome = IF IsCancellation(err) THEN "cancelled" ELSE "error",
                   !.hist.cause = cause])

\* catch (page.tsx 273-288), then finally
HfsCatch(st, err, cause) ==
    HfsFinally(
        IF IsCancellation(err)
        THEN [st EXCEPT !.error = NoError, !.selectedFile = FALSE,
                        !.excelReadyData = NoExcel,
                        !.toasts = Append(@, [variant |-> "default",
                                              title |-> "Processing Cancelled"]),
                        !.hist.outcome = "cancelled", !.hist.cause = cause]
        ELSE [st EXCEPT !.error = ErrorMessage(err.message), !.selectedFile = FALSE,
                        !.excelReadyData = NoExcel,
                        !.toasts = Append(@, [variant |-> "destructive",
                                              title |-> "Conversion Failed"]),
                        !.hist.outcome = "error", !.hist.cause = cause])

\* page.tsx 249-258: the checks before the structuring call, and the call
CallStructuring(st, raw) ==
    IF st.aborted
    THEN HfsCatch([st EXCEPT !.rawTextOutput = raw],
                  ProcessingCancelledError("Processing was cancelled"), "cancelled")
    ELSE [st EXCEPT !.rawTextOutput = raw,
                    !.loadingStep = Step("Structuring data with AI..."),
                    !.pc = "structuring"]

\* directText && directText.length > MIN_TEXT_LENGTH_FOR_TEXT_PDF
UseDirectText(text) == Len(text) # 0 /\ Len(text) > MIN_TEXT_LENGTH_FOR_TEXT_PDF

\* page.tsx 203-213: the choice between the direct text and the OCR fallback
AfterExtract(st, text) ==
    IF UseDirectText(text)
    THEN CallStructuring([st EXCEPT !.directText = text], text)
    ELSE [st EXCEPT !.directText = text,
                    !.loadingStep = Step("PDF has no text, using OCR to scan pages..."),
                    !.ocrTextFromAllPages = <<>>,
                    !.ocr = [IdleCall EXCEPT !.outcome = "running"],
                    !.hist.usedOcr = TRUE,
                    !.pc = "ocr_getDocument"]

(***************************************************************************)
(* extractTextFromPdf (env.ts 399-445)                                     *)
(***************************************************************************)
\* ReleasePdf placed at the end of the try block instead of in finally
ReleasePdfOnSuccessOnly(call) ==
    IF call.pdf = "open" /\ call.outcome = "ok"
    THEN [call EXCEPT !.pdf = "destroyed", !.destroyCalls = @ + 1]
    ELSE call

\* what pdf.destroy() throws when it fails
DestroyError == MkError("Error", "Error", "Worker was destroyed", FALSE, FALSE)

\* ReleasePdf without the try/catch around pdf.destroy(): the error thrown in
\* finally replaces the outcome of the call
ReleasePdfRethrows(call) ==
    IF call.pdf = "open"
    THEN IF call.destroyThrows
         THEN [call EXCEPT !.pdf = "destroyed", !.destroyCalls = @ + 1,
                           !.outcome = "error", !.thrown = DestroyError]
         ELSE [call EXCEPT !.pdf = "destroyed", !.destroyCalls = @ + 1]
    ELSE call

\* finally { if (pdf) { try { pdf.destroy() } catch (cleanupError)
\* { console.warn(...) } } }  (env.ts 435-444 and 573-582)
ReleasePdf(call) ==
    IF call.pdf = "open"
    THEN [call EXCEPT !.pdf = "destroyed", !.destroyCalls = @ + 1,
                      !.warned = IF call.destroyThrows THEN @ + 1 ELSE @]
    ELSE call

\* an error thrown inside the try block: catch, finally, and the caller's catch
ExtThrow(st, e) ==
    LET thrown == ExtractCatch(e, st.aborted)
        call == ReleasePdf([st.ext EXCEPT !.outcome = OutcomeOf(thrown),
                                          !.thrown = thrown,
                                          !.abortedAtSettle = st.aborted])
    IN HfsCatch([st EXCEPT !.ext = call,
                           !.logged = @ \o CatchPdfLog(e, st.aborted, "extractTextFromPdf")],
                thrown, "extract")

\* return fullText.trim(), finally, and the caller goes on
ExtReturn(st) ==
    LET call == ReleasePdf([st.ext EXCEPT !.outcome = "ok",
                                          !.abortedAtSettle = st.aborted])
    IN AfterExtract([st EXCEPT !.ext = call], Trim(st.ext.text))

\* the head of the page loop, i = st.ext.page (env.ts 405-409)
ExtLoop(st) ==
    IF st.ext.page > st.numPages THEN ExtReturn(st)
    ELSE IF st.aborted THEN ExtThrow(st, Err.extractCancelled)
    ELSE [st EXCEPT !.pc = "ext_getPage"]

(***************************************************************************)
(* convertPdfPagesToImageUrisIncremental (env.ts 520-583) and the page     *)
(* callback handed to it (page.tsx 215-241)                                *)
(***************************************************************************)
\* an error thrown inside the try block: catch, finally, and the caller's catch
OcrThrow(st, e, cause) ==
    LET thrown == ConvertCatch(e, st.aborted)
        call == ReleasePdf([st.ocr EXCEPT !.outcome = OutcomeOf(thrown),
                                          !.thrown = thrown,
                                          !.abortedAtSettle = st.aborted])
    IN HfsCatch([st EXCEPT !.ocr = call,
                           !.logged = @ \o CatchPdfLog(e, st.aborted,
                                           "convertPdfPagesToImageUrisIncremental")],
                thrown, cause)

\* the loop ended: finally, and the caller goes on (page.tsx 245-247)
OcrReturn(st) ==
    LET call == ReleasePdf([st.ocr EXCEPT !.outcome = "ok",
                                          !.abortedAtSettle = st.aborted])
        s1 == [st EXCEPT !.ocr = call]
    IN IF st.ocrTextFromAllPages = <<>>
       THEN HfsCatch(s1, Err.ocrNoText, "ocrNoText")
       ELSE CallStructuring(s1, st.ocrTextFromAllPages)

\* OcrLoop without the check of signal.aborted
OcrLoopUnchecked(st) ==
    IF st.ocr.page > st.numPages THEN OcrReturn(st)
    ELSE [st EXCEPT !.pc = "ocr_getPage"]

\* the head of the page loop, pageNum = st.ocr.page (env.ts 530-535)
OcrLoop(st) ==
    IF st.ocr.page > st.numPages THEN OcrReturn(st)
    ELSE IF st.aborted THEN OcrThrow(st, Err.convertCancelled, "cancelled")
    ELSE [st EXCEPT !.pc = "ocr_getPage"]

\* the callback rethrows every error
RethrowsAlways(e) == TRUE

\* the catch of the page callback rethrows this error (page.tsx 233-235)
CallbackRethrows(e) == IsCancellation(e)

\* AfterCallback without the clean-up of the canvas
AfterCallbackKeepsCanvas(st) ==
    OcrLoop([st EXCEPT !.ocr.page = @ + 1])

\* onPageProcessed returned: the canvas is cleared and the loop goes on
\* (env.ts 555-559)
AfterCallback(st) ==
    OcrLoop([st EXCEPT !.ocr.canvasLive = @ - 1, !.ocr.page = @ + 1])

\* result.extractedText is appended when it is not empty (page.tsx 228-230)
AppendPageText(acc, text) ==
    IF text # <<>> THEN acc \o text \o <<"\n", "\n">> ELSE acc

(***************************************************************************)
(* Inputs of the pipeline                                                  *)
(***************************************************************************)
\* the text items of one page, joined
PageTexts ==
    {<<>>, <<" ">>,
     Rep("x", MIN_TEXT_LENGTH_FOR_TEXT_PDF - 1),
     Rep("x", MIN_TEXT_LENGTH_FOR_TEXT_PDF),
     Rep("x", MIN_TEXT_LENGTH_FOR_TEXT_PDF + 1)}

\* the text recognised on one page image
OcrTexts == {<<>>, <<"a">>, <<"b">>}


OneTransaction ==
    [isNull |-> FALSE, header |-> NoHeader,
     transactions |-> <<[date |-> Str(Dates.d0101), description |-> Str(<<"X">>),
                         debit |-> Num(24500), credit |-> Undef,
                         balance |-> Num(39975500)]>>,
     footer |-> NoFooter]

NoTransactionsFound ==
    [isNull |-> FALSE, header |-> NoHeader, transactions |-> <<>>, footer |-> NoFooter]

\* what structurePdfData resolves with
StructResults == {OneTransaction, NoTransactionsFound}

(***************************************************************************)
(* Actions: one per await of the run, and the cancel button                *)
(***************************************************************************)
\* handleFileSelect up to its first await (page.tsx 138-182).  One run is
\* followed through its processing; calls that the limit check refuses come
\* before and after it.
HandleFileSelect ==
    /\ pc \in {"idle", "done"}
    /\ \E allowed \in {a \in BOOLEAN : a => pc = "idle"} :
           IF ~allowed
           THEN Set([Cur EXCEPT !.showLimitDialog = TRUE, !.hist.limitRefused = TRUE])
           ELSE Set([Cur EXCEPT !.isLoading = TRUE, !.error = NoError,
                                !.excelReadyData = NoExcel, !.selectedFile = TRUE,
                                !.loadingStep = Step("Processing your PDF, please wait..."),
                                !.abortControllerRef = TRUE, !.aborted = FALSE,
                                !.pc = "arrayBuffer"])

\* handleCancel (page.tsx 299-303)
HandleCancel ==
    /\ abortControllerRef
    /\ ~aborted
    /\ Set([Cur EXCEPT !.aborted = TRUE])

\* fileToProcess.arrayBuffer() settles (page.tsx 182-188)
ArrayBufferSettles ==
    /\ pc = "arrayBuffer"
    /\ \E ok \in BOOLEAN :
           IF ~ok THEN Set(HfsCatch(Cur, Err.notReadable, "arrayBuffer"))
           ELSE IF aborted
           THEN Set(HfsCatch([Cur EXCEPT !.hist.abortedAtBuffer = TRUE],
                             ProcessingCancelledError("Processing was cancelled"),
                             "cancelled"))
           ELSE Set([Cur EXCEPT !.loadingStep = Step("Loading processing modules..."),
                                !.pc = "import"])

\* the dynamic imports settle; extractTextFromPdf is called (page.tsx 191-203)
ImportSettles ==
    /\ pc = "import"
    /\ \E ok \in BOOLEAN :
           IF ~ok THEN Set(HfsCatch(Cur, Err.chunkLoad, "import"))
           ELSE Set([Cur EXCEPT !.loadingStep = Step("Extracting text from PDF..."),
                                !.ext = [IdleCall EXCEPT !.outcome = "running"],
                                !.pc = "ext_getDocument"])

\* getDocument(...).promise settles in extractTextFromPdf (env.ts 402-408)
ExtGetDocumentSettles ==
    /\ pc = "ext_getDocument"
    /\ \/ \E e \in PdfErrors :
              Set(ExtThrow([Cur EXCEPT !.ext.abortedAtOpen = aborted,
                                       !.ext.pdfFault = TRUE], e))
       \/ \E n \in 1..MaxPages : \E destroyThrows \in BOOLEAN :
              Set(ExtLoop([Cur EXCEPT !.numPages = n, !.ext.pdf = "open",
                                      !.ext.destroyThrows = destroyThrows,
                                      !.ext.abortedAtOpen = aborted,
                                      !.ext.page = 1]))

\* pdf.getPage(i) settles (env.ts 409)
ExtGetPageSettles ==
    /\ pc = "ext_getPage"
    /\ \/ \E e \in PdfErrors : Set(ExtThrow([Cur EXCEPT !.ext.pdfFault = TRUE], e))
       \/ Set([Cur EXCEPT !.pc = "ext_getTextContent"])

\* page.getTextContent() settles; the loop goes on (env.ts 410-420)
ExtGetTextContentSettles ==
    /\ pc = "ext_getTextContent"
    /\ \/ \E e \in PdfErrors : Set(ExtThrow([Cur EXCEPT !.ext.pdfFault = TRUE], e))
       \/ \E pageText \in PageTexts :
              Set(ExtLoop([Cur EXCEPT !.ext.text = @ \o pageText \o <<"\n", "\n">>,
                                      !.ext.page = @ + 1]))

\* getDocument(...).promise settles in convertPdfPagesToImageUrisIncremental
\* (env.ts 527-533)
OcrGetDocumentSettles ==
    /\ pc = "ocr_getDocument"
    /\ \/ \E e \in PdfErrors :
              Set(OcrThrow([Cur EXCEPT !.ocr.abortedAtOpen = aborted,
                                       !.ocr.pdfFault = TRUE], e, "render"))
       \/ \E destroyThrows \in BOOLEAN :
              Set(OcrLoop([Cur EXCEPT !.ocr.pdf = "open",
                                      !.ocr.destroyThrows = destroyThrows,
                                      !.ocr.abortedAtOpen = aborted,
                                      !.ocr.page = 1]))

\* pdf.getPage(pageNum) settles; the canvas is created (env.ts 535-545)
OcrGetPageSettles ==
    /\ pc = "ocr_getPage"
    /\ \/ \E e \in PdfErrors :
              Set(OcrThrow([Cur EXCEPT !.ocr.pdfFault = TRUE], e, "render"))
       \/ \E context \in BOOLEAN :
              IF ~context
              THEN Set(OcrThrow([Cur EXCEPT !.ocr.canvasLive = @ + 1,
                                            !.ocr.pdfFault = TRUE],
                                Err.noCanvasContext, "render"))
              ELSE Set([Cur EXCEPT !.ocr.canvasLive = @ + 1, !.pc = "ocr_render"])

\* page.render(...).promise settles; onPageProcessed is called and runs up to
\* its await (env.ts 547-553, page.tsx 215-227)
OcrRenderSettles ==
    /\ pc = "ocr_render"
    /\ \/ \E e \in PdfErrors :
              Set(OcrThrow([Cur EXCEPT !.ocr.pdfFault = TRUE], e, "render"))
       \/ LET called == [Cur EXCEPT !.ocr.cbCalls = Append(@, ocr.page)]
          IN IF aborted
             THEN Set(OcrThrow(called,
                               ProcessingCancelledError("Processing was cancelled"),
                               "cancelled"))
             ELSE Set([called EXCEPT !.loadingStep = ScanningStep(ocr.page, numPages),
                                     !.pc = "ocr_recognise"])

\* extractTextFromImage settles; the callback returns or throws
\* (page.tsx 227-241, env.ts 553-559)
OcrRecogniseSettles ==
    /\ pc = "ocr_recognise"
    /\ \/ \E text \in OcrTexts :
              Set(AfterCallback(
                  [Cur EXCEPT !.ocrTextFromAllPages = AppendPageText(@, text),
                              !.ocr.recog = Append(@, [page |-> ocr.page,
                                                       kind |-> "text",
                                                       text |-> text,
                                                       abortTyped |-> FALSE])]))
       \/ \E e \in ActionErrors :
              LET noted(kind) == [Cur EXCEPT !.ocr.recog =
                                      Append(@, [page |-> ocr.page, kind |-> kind,
                                                 text |-> <<>>,
                                                 abortTyped |-> IsCancellation(e)])]
              IN IF CallbackRethrows(e)
                 THEN Set(OcrThrow(noted("rethrown"), e, "recognition"))
                 ELSE Set(AfterCallback(noted("failed")))

\* structurePdfData settles; the table is published (page.tsx 258-271)
StructuringSettles ==
    /\ pc = "structuring"
    /\ \/ \E e \in ActionErrors :
              Set(HfsCatch([Cur EXCEPT !.hist.structAborted = aborted], e, "structuring"))
       \/ \E structuredDataResult \in StructResults :
              Set(HfsFinally(
                  [Cur EXCEPT !.hist.structAborted = aborted,
                              !.hist.outcome = "success",
                              !.rawTextOutput = <<>>,
                              !.loadingStep = Step("Preparing Excel data..."),
                              !.excelReadyData =
                                  ExcelData(formatStructuredDataForExcel(structuredDataResult)),
                              !.recordConversionCalls = @ + 1,
                              !.toasts = Append(@, [variant |-> "default",
                                                    title |-> "Conversion Successful"])]))

Next ==
    \/ HandleFileSelect
    \/ HandleCancel
    \/ ArrayBufferSettles
    \/ ImportSettles
    \/ ExtGetDocumentSettles
    \/ ExtGetPageSettles
    \/ ExtGetTextContentSettles
    \/ OcrGetDocumentSettles
    \/ OcrGetPageSettles
    \/ OcrRenderSettles
    \/ OcrRecogniseSettles
    \/ StructuringSettles

Spec == Init /\ [][Next]_vars

\* the awaits of the run: each of them settles
Settles ==
    \/ ArrayBufferSettles
    \/ ImportSettles
    \/ ExtGetDocumentSettles
    \/ ExtGetPageSettles
    \/ ExtGetTextContentSettles
    \/ OcrGetDocumentSettles
    \/ OcrGetPageSettles
    \/ OcrRenderSettles
    \/ OcrRecogniseSettles
    \/ StructuringSettles

\* the run under the assumption that every promise it awaits settles
SpecSettles == Spec /\ WF_vars(Settles)

(***************************************************************************)
(* Several runs of handleFileSelect in flight together (page.tsx 138-303). *)
(* Each run has its own AbortController and signal (175-177); the ref, the *)
(* loading state and the result state are the component's.  A run is       *)
(* followed through its awaits: arrayBuffer, the imports, the extraction   *)
(* (here always of a text PDF) and the structuring call.                   *)
(***************************************************************************)
InFlight(r) == overlap.runs[r].pc \notin {"idle", "done"}

\* what the component's state becomes when run r leaves through finally
RunLeaves(r, outcome) ==
    /\ overlap' = [overlap EXCEPT !.runs[r].pc = "done",
                                  !.runs[r].outcome = outcome,
                                  !.ref = 0]
    /\ abortControllerRef' = FALSE
    /\ isLoading' = FALSE
    /\ loadingStep' = Step("")

\* catch (page.tsx 273-288), then finally (289-296), of run r
RunCatches(r, err) ==
    /\ RunLeaves(r, IF IsCancellation(err) THEN "cancelled" ELSE "error")
    /\ error' = IF IsCancellation(err) THEN NoError ELSE ErrorMessage(err.message)
    /\ selectedFile' = FALSE
    /\ excelReadyData' = NoExcel
    /\ toasts' = Append(toasts,
                        IF IsCancellation(err)
                        THEN [variant |-> "default", title |-> "Processing Cancelled"]
                        ELSE [variant |-> "destructive", title |-> "Conversion Failed"])
    /\ UNCHANGED recordConversionCalls

\* run r goes on to its next await
RunGoesOn(r, next, label) ==
    /\ overlap' = [overlap EXCEPT !.runs[r].pc = next]
    /\ loadingStep' = Step(label)
    /\ UNCHANGED <<abortControllerRef, isLoading, error, selectedFile,
                   excelReadyData, toasts, recordConversionCalls>>

\* what no run of this specification touches
OverlapFrame ==
    UNCHANGED <<pc, aborted, numPages, directText,
                ocrTextFromAllPages, rawTextOutput, ext, ocr, logged, hist,
                dataVars, fnVars>>

\* handleFileSelect of run r up to its first await (page.tsx 138-182)
OverlapFileSelect(r) ==
    /\ overlap.runs[r].pc = "idle"
    /\ \E allowed \in BOOLEAN :
           IF ~allowed
           THEN /\ showLimitDialog' = TRUE
                /\ UNCHANGED <<overlap, abortControllerRef, isLoading, error,
                               excelReadyData, selectedFile, loadingStep>>
           ELSE /\ overlap' = [overlap EXCEPT !.runs[r].pc = "arrayBuffer",
                                              !.runs[r].aborted = FALSE,
                                              !.ref = r]
                /\ abortControllerRef' = TRUE
                /\ isLoading' = TRUE
                /\ error' = NoError
                /\ excelReadyData' = NoExcel
                /\ selectedFile' = TRUE
                /\ loadingStep' = Step("Processing your PDF, please wait...")
                /\ UNCHANGED showLimitDialog
    /\ UNCHANGED <<toasts, recordConversionCalls>>
    /\ OverlapFrame

\* handleCancel (page.tsx 299-303): aborts the controller the ref holds
OverlapCancel ==
    /\ overlap.ref # 0
    /\ ~overlap.runs[overlap.ref].aborted
    /\ overlap' = [overlap EXCEPT !.runs[overlap.ref].aborted = TRUE]
    /\ UNCHANGED <<abortControllerRef, isLoading, loadingStep, error, selectedFile,
                   excelReadyData, toasts, recordConversionCalls, showLimitDialog>>
    /\ OverlapFrame

\* the await run r is suspended at settles (page.tsx 182-271)
OverlapSettles(r) ==
    /\ InFlight(r)
    /\ LET run == overlap.runs[r]
           cancelled == ProcessingCancelledError("Processing was cancelled")
       IN \E ok \in BOOLEAN :
              CASE run.pc = "arrayBuffer" ->
                       IF ~ok THEN RunCatches(r, Err.notReadable)
                       ELSE IF run.aborted THEN RunCatches(r, cancelled)
                       ELSE RunGoesOn(r, "import", "Loading processing modules...")
                [] run.pc = "import" ->
                       IF ~ok THEN RunCatches(r, Err.chunkLoad)
                       ELSE RunGoesOn(r, "extract", "Extracting text from PDF...")
                [] run.pc = "extract" ->
                       IF run.aborted THEN RunCatches(r, cancelled)
                       ELSE IF ~ok THEN RunCatches(r, Err.plain)
                       ELSE RunGoesOn(r, "structuring", "Structuring data with AI...")
                [] run.pc = "structuring" ->
                       IF ~ok THEN RunCatches(r, Err.service)
                       ELSE /\ RunLeaves(r, "success")
                            /\ excelReadyData' =
                                   ExcelData(formatStructuredDataForExcel(OneTransaction))
                            /\ recordConversionCalls' = recordConversionCalls + 1
                            /\ toasts' = Append(toasts, [variant |-> "default",
                                                         title |-> "Conversion Successful"])
                            /\ UNCHANGED <<error, selectedFile>>
    /\ UNCHANGED showLimitDialog
    /\ OverlapFrame

NextOverlap ==
    \/ \E r \in 1..MaxRuns : OverlapFileSelect(r)
    \/ OverlapCancel
    \/ \E r \in 1..MaxRuns : OverlapSettles(r)

SpecOverlap == Init /\ [][NextOverlap]_vars

(***************************************************************************)
(* The error-handling entry points called with the errors of the pipeline  *)
(***************************************************************************)
\* the errors handed to createErrorResponse and handleError
HandledErrors ==
    PdfErrors \cup ActionErrors \cup
    {ProcessingCancelledError("Processing was cancelled"),
     ExtractCatch(Err.plain, TRUE), ExtractCatch(Err.msgNetwork, FALSE)}

\* what the entry points leave alone
ErrorsFrame ==
    UNCHANGED <<flowOutput, flowResult, worksheet, retry, upload, history, dataVars, pc, aborted,
                abortControllerRef, isLoading, loadingStep, error, selectedFile,
                excelReadyData, showLimitDialog, recordConversionCalls, numPages,
                directText, ocrTextFromAllPages, rawTextOutput, ext, ocr, hist,
                overlap>>

\* an API route handler rejects and withErrorHandler calls createErrorResponse
\* (error-handler.ts 113-118)
CreateErrorResponse ==
    /\ response.calls < MaxCalls
    /\ \E e \in HandledErrors : \E isProduction \in BOOLEAN :
           LET r == createErrorResponse(e, isProduction)
           IN /\ logged' = logged \o r.logged
              /\ response' = [calls |-> response.calls + 1, fn |-> "createErrorResponse",
                              error |-> e, status |-> r.status, body |-> r.body]
              /\ UNCHANGED toasts
    /\ ErrorsFrame

\* a component calls handleError (use-error-handler.tsx 24-48)
HandleError ==
    /\ response.calls < MaxCalls
    /\ \E e \in HandledErrors : \E customMessage \in {"", "Upload failed"} :
       \E shouldLog \in BOOLEAN : \E showToast \in BOOLEAN :
           LET r == handleError(e, customMessage, shouldLog, showToast)
           IN /\ logged' = logged \o r.logged
              /\ toasts' = toasts \o r.toasts
              /\ response' = [calls |-> response.calls + 1, fn |-> "handleError",
                              error |-> e, status |-> 0,
                              body |-> NoResponse.body]
    /\ ErrorsFrame

NextErrors == CreateErrorResponse \/ HandleError

SpecErrors == Init /\ [][NextErrors]_vars

(***************************************************************************)
(* handleAsyncError (error-handler.ts 125-164) with retries >= 0; fn       *)
(* resolves or rejects with one of FnErrors                                *)
(***************************************************************************)
\* isRetryableError that accepts every error
isRetryableErrorAlways(e) == TRUE

\* isRetryableError (types/errors 369-392): of the errors of the model, which
\* carry no status code, the NetworkErrors
isRetryableError(e) == e.cls = "NetworkError"

\* what fn can reject with
FnErrors ==
    {Err.plain, Err.service, NetworkError("Failed to fetch"),
     ExtractCatch(Err.msgNetwork, FALSE)}

\* what handleAsyncError leaves alone
RetryFrame ==
    UNCHANGED <<flowOutput, flowResult, worksheet, response, upload, history,
                dataVars, pc, aborted, abortControllerRef, isLoading, loadingStep,
                error, selectedFile, excelReadyData, showLimitDialog, toasts,
                recordConversionCalls, numPages, directText, ocrTextFromAllPages,
                rawTextOutput, ext, ocr, hist, overlap>>

\* handleAsyncError(fn, {retries, onError}) up to its first await of fn()
HandleAsyncError ==
    /\ retry.pc = "idle"
    /\ \E retries \in 0..MaxRetries : \E hasOnError \in BOOLEAN :
           retry' = [NoRetry EXCEPT !.pc = "calling", !.retries = retries,
                                    !.hasOnError = hasOnError, !.calls = 1]
    /\ UNCHANGED logged
    /\ RetryFrame

\* fn() settles (error-handler.ts 140-160)
FnSettles ==
    /\ retry.pc = "calling"
    /\ \/ /\ retry' = [retry EXCEPT !.pc = "resolved"]
          /\ UNCHANGED logged
       \/ \E e \in FnErrors :
              LET attempt == retry.attempt + 1
                  failed == [retry EXCEPT !.failures = Append(@, e),
                                          !.attempt = attempt]
              IN IF ~isRetryableError(e) \/ attempt > retry.retries
                 THEN /\ retry' = [failed EXCEPT
                                      !.pc = "rejected", !.thrown = e,
                                      !.onErrorCalls =
                                          IF retry.hasOnError
                                          THEN Append(@, [error |-> e, attempt |-> attempt])
                                          ELSE @]
                      /\ logged' = IF retry.hasOnError THEN logged
                                   ELSE Append(logged, [operation |-> "handleAsyncError",
                                                        error |-> e])
                 ELSE /\ retry' = [failed EXCEPT !.pc = "waiting",
                                                 !.slept = Append(@, attempt)]
                      /\ UNCHANGED logged
    /\ RetryFrame

\* the timer of retryDelay * attempt fires; the loop calls fn() again
\* (error-handler.ts 139-141, 157-159)
RetryTimerFires ==
    /\ retry.pc = "waiting"
    /\ retry' = IF retry.attempt <= retry.retries
                THEN [retry EXCEPT !.pc = "calling", !.calls = @ + 1]
                ELSE [retry EXCEPT !.pc = "rejected",
                                   !.thrown = retry.failures[Len(retry.failures)]]
    /\ UNCHANGED logged
    /\ RetryFrame

NextRetry == HandleAsyncError \/ FnSettles \/ RetryTimerFires

\* fn() settles and the timer fires
SpecRetry == Init /\ [][NextRetry]_vars /\ WF_vars(NextRetry)

(***************************************************************************)
(* uploadPdfAndGetCsv (backend/api/api.js 10-111)                          *)
(***************************************************************************)
MAX_RETRIES == 10

\* what a status request can be answered with: a response that is not ok
\* (status |-> "!ok"), a rejected fetch (status |-> "rejected"), or a body
\* {status, message}
StatusAnswers ==
    {[status |-> st, message |-> ""] :
        st \in {"!ok", "rejected", "READY", "NOT_FOUND", "FORBIDDEN", "ERROR",
                "PROCESSING"}}
    \cup {[status |-> "ERROR", message |-> "Conversion failed"],
          [status |-> "ERROR", message |-> "Processing returned error"]}

\* getDownloadURL (api.js 59-88): the message of the error it throws; "" when
\* it returns the download URL
getDownloadURL(answer) ==
    CASE answer.status = "rejected" -> "request failed, reason: socket hang up"
      [] answer.status = "!ok" -> "Download request failed: 503"
      [] answer.status = "READY" -> ""
      [] answer.status = "NOT_FOUND" -> "File not found"
      [] answer.status = "FORBIDDEN" -> "Access denied"
      [] answer.status = "ERROR" ->
             IF answer.message # "" THEN answer.message ELSE "Processing error"
      [] OTHER -> "Unexpected status: PROCESSING"

\* err.message.includes("not found") || err.message.includes("denied") ||
\* err.message.includes("Processing")  (api.js 99-103), for the messages
\* getDownloadURL throws in the model
IsPermanent(message) ==
    message \in {"File not found", "Access denied", "Processing error",
                 "Processing returned error"}

\* the loop test without its bound
LoopGoesOnForEver(attempt) == TRUE

\* attempt <= MAX_RETRIES (api.js 95)
LoopGoesOn(attempt) == attempt <= MAX_RETRIES

\* what uploadPdfAndGetCsv leaves alone
UploadFrame ==
    UNCHANGED <<flowOutput, flowResult, worksheet, response, retry, history,
                dataVars, pipeVars>>

\* uploadPdfAndGetCsv(filename, file) up to the first fetch (api.js 10-38)
UploadPdfAndGetCsv ==
    /\ upload.pc = "idle"
    /\ \E given \in BOOLEAN :
           upload' = IF given THEN [upload EXCEPT !.pc = "presign"]
                     ELSE [upload EXCEPT !.pc = "rejected",
                                         !.thrown = "filename and file are required"]
    /\ UploadFrame

\* the request for the presigned URL settles; the PUT is sent (api.js 31-50)
PresignSettles ==
    /\ upload.pc = "presign"
    /\ \E ok \in BOOLEAN :
           upload' = IF ok THEN [upload EXCEPT !.pc = "put", !.uploads = @ + 1]
                     ELSE [upload EXCEPT !.pc = "rejected",
                                         !.thrown = "Failed to get presigned upload URL"]
    /\ UploadFrame

\* the loop head and the status request of that turn (api.js 95-97)
Poll(up, attempt) ==
    IF LoopGoesOn(attempt)
    THEN [up EXCEPT !.pc = "status", !.attempt = attempt, !.requests = @ + 1]
    ELSE [up EXCEPT !.pc = "rejected", !.attempt = attempt,
                    !.thrown = "Timed out waiting for CSV processing"]

\* the PUT settles; the polling loop is entered (api.js 50-97)
PutSettles ==
    /\ upload.pc = "put"
    /\ \E ok \in BOOLEAN :
           upload' = IF ok THEN Poll(upload, 1)
                     ELSE [upload EXCEPT !.pc = "rejected", !.thrown = "S3 upload failed"]
    /\ UploadFrame

\* a status request settles (api.js 96-107)
StatusSettles ==
    /\ upload.pc = "status"
    /\ \E answer \in StatusAnswers :
           LET message == getDownloadURL(answer)
               seen == [upload EXCEPT
                           !.answer = answer,
                           !.permanent =
                               @ \/ answer.status \in {"NOT_FOUND", "FORBIDDEN", "ERROR"}]
           IN upload' = IF message = ""
                        THEN [seen EXCEPT !.pc = "resolved", !.result = "downloadUrl"]
                        ELSE IF IsPermanent(message)
                        THEN [seen EXCEPT !.pc = "rejected", !.thrown = message]
                        ELSE [seen EXCEPT !.pc = "sleep", !.sleeps = @ + 1]
    /\ UploadFrame

\* sleep(RETRY_DELAY_MS) ends; the next turn of the loop (api.js 105, 95)
SleepEnds ==
    /\ upload.pc = "sleep"
    /\ upload' = Poll(upload, upload.attempt + 1)
    /\ UploadFrame

NextUpload ==
    \/ UploadPdfAndGetCsv
    \/ PresignSettles
    \/ PutSettles
    \/ StatusSettles
    \/ SleepEnds

\* every fetch settles and every timer fires
SpecUpload == Init /\ [][NextUpload]_vars /\ WF_vars(NextUpload)

(***************************************************************************)
(* handleDownload and the download history (page.tsx 32-34, 305-348)       *)
(***************************************************************************)
MAX_FILE_COUNT == 12
TWENTY_FOUR_HOURS_MS == 86400000

\* the time between the last write of the history and Date.now(), in ms
Elapsed == {0, TWENTY_FOUR_HOURS_MS - 1, TWENTY_FOUR_HOURS_MS}

\* a filter that keeps a file of exactly 24 hours
FilterRecentInclusive(files, now) ==
    LET keep(file) == (now - file.timestamp) <= TWENTY_FOUR_HOURS_MS
    IN SelectSeq(files, keep)

\* files.filter(file => (now - file.timestamp) < TWENTY_FOUR_HOURS_MS)
FilterRecent(files, now) ==
    LET keep(file) == (now - file.timestamp) < TWENTY_FOUR_HOURS_MS
    IN SelectSeq(files, keep)

\* if (files.length > MAX_FILE_COUNT) files.length = MAX_FILE_COUNT
KeepMostRecent(files) ==
    IF Len(files) > MAX_FILE_COUNT THEN SubSeq(files, 1, MAX_FILE_COUNT) ELSE files

\* the array handleDownload writes back (page.tsx 314-333)
StoredFiles(files, now) ==
    KeepMostRecent(<<[timestamp |-> now]>> \o FilterRecent(files, now))

\* a run of handleFileSelect has published a table (page.tsx 172, 266); the
\* steps of the run are those of Spec, here only its result is taken
TablePublished ==
    /\ excelReadyData.isNull
    /\ history.written < MaxDownloads
    /\ excelReadyData' = ExcelData(formatStructuredDataForExcel(OneTransaction))
    /\ selectedFile' = TRUE
    /\ UNCHANGED <<pc, aborted, abortControllerRef, isLoading, loadingStep, error,
                   showLimitDialog, toasts, recordConversionCalls, numPages,
                   directText, ocrTextFromAllPages, rawTextOutput, ext, ocr, logged,
                   hist, overlap>>
    /\ UNCHANGED <<dataVars, fnVars>>

\* handleDownload (page.tsx 305-348); writeFails: exportToExcel throws;
\* storageFails: getItem, JSON.parse or setItem throws; elapsed: what
\* Date.now() reads
HandleDownload ==
    /\ ~excelReadyData.isNull /\ selectedFile
    /\ history.written < MaxDownloads
    /\ history.timers < MaxTimers
    /\ \E writeFails \in BOOLEAN :
           /\ worksheet' = exportToExcel(excelReadyData.data, writeFails)
           /\ IF writeFails THEN UNCHANGED history
              ELSE \E storageFails \in BOOLEAN, elapsed \in Elapsed :
                       LET now == history.now + elapsed
                           set == [history EXCEPT !.timers = @ + 1]
                       IN history' =
                              IF storageFails
                              THEN [set EXCEPT !.toast = "Could Not Save History"]
                              ELSE [set EXCEPT
                                       !.files = StoredFiles(history.files, now),
                                       !.now = now,
                                       !.written = @ + 1,
                                       !.toast = "File Saved"]
    /\ UNCHANGED <<flowOutput, flowResult, response, retry, upload>>
    /\ UNCHANGED <<dataVars, pipeVars>>

\* a setTimeout callback of handleDownload runs (page.tsx 341-344)
DownloadTimerFires ==
    /\ history.timers > 0
    /\ history' = [history EXCEPT !.timers = @ - 1]
    /\ excelReadyData' = NoExcel
    /\ selectedFile' = FALSE
    /\ UNCHANGED <<pc, aborted, abortControllerRef, isLoading, loadingStep, error,
                   showLimitDialog, toasts, recordConversionCalls, numPages,
                   directText, ocrTextFromAllPages, rawTextOutput, ext, ocr, logged,
                   hist, overlap>>
    /\ UNCHANGED <<flowOutput, flowResult, worksheet, response, retry, upload>>
    /\ UNCHANGED dataVars

NextDownload ==
    \/ TablePublished
    \/ HandleDownload
    \/ DownloadTimerFires

SpecDownload == Init /\ [][NextDownload]_vars






(***************************************************************************)
(* Claims about the pipeline (specification Spec)                          *)
(***************************************************************************)
Settled(call) == call.outcome \in {"ok", "cancelled", "network", "error"}
Rejected(call) == call.outcome \in {"cancelled", "network", "error"}
PdfCalls == {ext, ocr}

\* C1: in extractTextFromPdf and convertPdfPagesToImageUrisIncremental the
\* loaded document is destroyed exactly once when the function has settled,
\* whether it returned, failed or was cancelled; a document that was never
\* loaded is never destroyed, and nothing is destroyed while the function
\* is still running.
C1_DestroyedExactlyOnce ==
    \A call \in PdfCalls :
        /\ call.destroyCalls = (IF Settled(call) /\ call.pdf # "null" THEN 1 ELSE 0)
        /\ Settled(call) => call.pdf # "open"

C1_Witness ==
    /\ ext.outcome = "ok" /\ ext.destroyCalls = 1
    /\ ocr.outcome = "error" /\ ocr.pdf = "destroyed" /\ ocr.destroyCalls = 1
    /\ ocr.page = 2

\* C2: a rejected call of either function rejects with
\* ProcessingCancelledError exactly when the cancel token is set at that
\* moment.
C2_CancelledIffTokenSet ==
    \A call \in PdfCalls :
        Rejected(call) => (call.outcome = "cancelled" <=> call.abortedAtSettle)

\* C3: when cancellation was requested while the structuring call was in
\* flight, the run ends as cancelled, publishes no table and records no
\* conversion.
C3_StructuringResultDiscardedOnCancel ==
    (pc = "done" /\ hist.structAborted) =>
        /\ hist.outcome = "cancelled"
        /\ excelReadyData = NoExcel
        /\ recordConversionCalls = 0

\* C4: when the cancel token is already set as the document load settles,
\* either function rejects with ProcessingCancelledError without processing
\* a page (no text, no callback), and the run ends as cancelled with nothing
\* published; a token already set when the file bytes arrive ends the run as
\* cancelled before either function is called.
C4_CancelBeforeFirstPage ==
    /\ \A call \in PdfCalls :
           call.abortedAtOpen =>
               /\ call.outcome = "cancelled"
               /\ isProcessingCancelledError(call.thrown)
               /\ call.page \in {0, 1}
               /\ call.text = <<>>
               /\ call.cbCalls = <<>>
               /\ call.recog = <<>>
               /\ hist.outcome = "cancelled"
               /\ excelReadyData = NoExcel
               /\ recordConversionCalls = 0
    /\ ocr.abortedAtOpen => ocrTextFromAllPages = <<>>
    /\ ext.abortedAtOpen => directText = <<>> /\ ocr = IdleCall
    /\ hist.abortedAtBuffer =>
           /\ hist.outcome = "cancelled"
           /\ ext = IdleCall /\ ocr = IdleCall
           /\ excelReadyData = NoExcel

C4_Witness ==
    /\ ocr.abortedAtOpen /\ ocr.pdf = "destroyed" /\ ocr.outcome = "cancelled"
    /\ ext.outcome = "ok"
    /\ pc = "done"

\* C5: after a successful direct extraction the OCR fallback is taken exactly
\* when the extracted text is shorter than MIN_TEXT_LENGTH_FOR_TEXT_PDF.
C5_OcrIffTextBelowMinimum ==
    ext.outcome = "ok" =>
        (hist.usedOcr <=> Len(directText) < MIN_TEXT_LENGTH_FOR_TEXT_PDF)

RECURSIVE TextOfRecognised(_)
TextOfRecognised(recog) ==
    IF recog = <<>> THEN <<>>
    ELSE AppendPageText(TextOfRecognised(SubSeq(recog, 1, Len(recog) - 1)),
                        recog[Len(recog)].text)

\* C6: while cancellation is not requested and no load or render step fails,
\* the OCR fallback visits every page in order, skips the pages whose
\* recognition failed, concatenates the text of the others in page order,
\* and no recognition error makes the conversion call reject.
C6_FailedPagesSkipped ==
    (Settled(ocr) /\ ~ocr.abortedAtSettle /\ ~ocr.pdfFault) =>
        /\ ocr.outcome = "ok"
        /\ ocr.cbCalls = [i \in 1..numPages |-> i]
        /\ Len(ocr.recog) = numPages
        /\ ocrTextFromAllPages = TextOfRecognised(ocr.recog)

\* the OCR fallback as a whole failed: the conversion call rejected, or the
\* run stopped right after it for want of text
OcrFallbackFailed == Rejected(ocr) \/ hist.cause = "ocrNoText"
HasRecog(kind) == \E i \in 1..Len(ocr.recog) : ocr.recog[i].kind = kind
AbortTypedRecognitionFailure ==
    \E i \in 1..Len(ocr.recog) :
        ocr.recog[i].kind = "rethrown" /\ ocr.recog[i].abortTyped

InitValidate ==
    /\ dataPc = "input"
    /\ \E txs \in SeqsUpTo(ValTransactions, MaxTx), f \in ValFooters :
           structuredData = [isNull |-> FALSE, header |-> NoHeader,
                             transactions |-> txs, footer |-> f]
    /\ DataIdle
    /\ PipeIdle

Validate ==
    /\ dataPc = "input"
    /\ validation' = validateTransactionData(structuredData.transactions,
                                             structuredData.footer)
    /\ dataPc' = "validated"
    /\ UNCHANGED <<structuredData, excelData, consoleWarn>>
    /\ UNCHANGED fnVars
    /\ UNCHANGED pipeVars

NextValidate == Validate

SpecValidate == InitValidate /\ [][NextValidate]_vars

\* transactions that differ in their date only, for the date gap check
GapTransactions ==
    [date : {Undef, Str(<<" ">>), Str(Dates.d0101), Str(Dates.d0131), Str(Dates.d0201),
             Str(Dates.d0315), Str(Dates.na)},
     description : {Str(<<"X">>)}, debit : {Undef}, credit : {Undef},
     balance : {Null}]

InitGaps ==
    /\ dataPc = "input"
    /\ \E txs \in SeqsUpTo(GapTransactions, MaxGapTx) :
           structuredData = [isNull |-> FALSE, header |-> NoHeader,
                             transactions |-> txs, footer |-> NoFooter]
    /\ DataIdle
    /\ PipeIdle

SpecGaps == InitGaps /\ [][NextValidate]_vars

\* transactions whose amounts differ in value and in decimal precision
\* (24.50 and 24.505), for the accuracy warnings
WarnTransactions ==
    [date : {Undef, Str(Dates.d0101), Str(Dates.d0201)},
     description : {Str(<<>>), Str(<<"X">>)},
     debit : {Undef, Num(24500), Num(24505)}, credit : {Undef},
     balance : {Null}]

InitWarnings ==
    /\ dataPc = "input"
    /\ \E txs \in SeqsUpTo(WarnTransactions, MaxTx), f \in ValFooters :
           structuredData = [isNull |-> FALSE, header |-> NoHeader,
                             transactions |-> txs, footer |-> f]
    /\ DataIdle
    /\ PipeIdle

SpecWarnings == InitWarnings /\ [][NextValidate]_vars

(***************************************************************************)
(* structurePdfDataFlow applied to drawn prompt outputs                    *)
(***************************************************************************)
FlowTransactions ==
    [date : {Undef, Str(<<" ">>), Str(Dates.d0101), Str(Dates.d0201)},
     description : {Str(<<>>), Str(<<" ">>), Str(<<"X">>)},
     debit : {Num(24500)}, credit : {Undef}, balance : {Null}]

FlowOutputs ==
    {NoFlowOutput} \cup
    [isNull : {FALSE}, hasTransactions : {FALSE},
     header : {NoHeader}, transactions : {<<>>},
     footer : {NoFooter, [NoFooter EXCEPT !.present = TRUE,
                                          !.closingBalance = Num(0)]}] \cup
    [isNull : {FALSE}, hasTransactions : {TRUE},
     header : {NoHeader, [NoHeader EXCEPT !.present = TRUE,
                                          !.bankName = Str(<<"A", "B", "C">>)]},
     transactions : SeqsUpTo(FlowTransactions, MaxFlowTx),
     footer : {NoFooter, [NoFooter EXCEPT !.present = TRUE,
                                          !.closingBalance = Num(0)]}]

InitFlow ==
    /\ dataPc = "input"
    /\ structuredData = NullData
    /\ validation = NoValidation
    /\ excelData = <<>>
    /\ consoleWarn = NoWarn
    /\ flowOutput \in FlowOutputs
    /\ flowResult = NoFlowResult
    /\ worksheet = NoWorksheet
    /\ response = NoResponse
    /\ retry = NoRetry
    /\ upload = NoUpload
    /\ history = NoHistory
    /\ PipeIdle

\* the prompt resolves and the flow settles
FlowSettles ==
    /\ flowResult.outcome = "none"
    /\ flowResult' = structurePdfDataFlow(flowOutput)
    /\ UNCHANGED <<flowOutput, worksheet, response, retry, upload, history, dataVars, pipeVars>>

NextFlow == FlowSettles

SpecFlow == InitFlow /\ [][NextFlow]_vars

(***************************************************************************)
(* exportToExcel applied to drawn matrices                                 *)
(***************************************************************************)
ExportTransactions ==
    [date : {Str(<<>>), Str(Dates.d0101), Str(Dates.invalid), Str(Dates.na)},
     description : {Str(<<"X">>)},
     debit : {Undef, Num(24500)}, credit : {Undef},
     balance : {Num(39975500)}]

\* the matrices handed to exportToExcel: what formatStructuredDataForExcel
\* makes of a document, a table whose header row reads 'date' and was
\* typed by hand, a table with no header row, and no data at all
ExportMatrices ==
    {formatStructuredDataForExcel(d) :
        d \in [isNull : {FALSE},
               header : {NoHeader,
                         [NoHeader EXCEPT !.present = TRUE,
                                          !.bankName = Str(<<"A", "B", "C">>)],
                         [NoHeader EXCEPT !.present = TRUE,
                                          !.statementDate = Str(Dates.d0131),
                                          !.openingBalance = Num(0)]},
               transactions : SeqsUpTo(ExportTransactions, MaxExportTx),
               footer : {NoFooter,
                         [NoFooter EXCEPT !.present = TRUE,
                                          !.closingBalance = Num(39975500),
                                          !.summary = Str(<<"S">>)]}]}
    \cup {<<>>,
          << <<Str(<<"d", "a", "t", "e">>), Str(<<"x">>), Null, Null, Null>>,
             <<Str(Dates.d0201), Num(5000), Num(10), Null, Str(<<"n">>)>> >>,
          << <<Str(Dates.d0101), Str(<<"X">>), Num(24500), Null, Num(1000)>>,
             <<Str(Dates.d0201), Str(<<"Y">>), Null, Num(10), Null>> >>}

InitExport ==
    /\ dataPc = "input"
    /\ structuredData = NullData
    /\ validation = NoValidation
    /\ excelData \in ExportMatrices
    /\ consoleWarn = NoWarn
    /\ FnIdle
    /\ PipeIdle

\* exportToExcel(excelData) runs to its end, on a drawn matrix or on the
\* matrix formatStructuredDataForExcel returned
ExportToExcel ==
    /\ dataPc \in {"input", "formatted"}
    /\ \E writeFails \in BOOLEAN :
           worksheet' = exportToExcel(excelData, writeFails)
    /\ dataPc' = "exported"
    /\ UNCHANGED <<structuredData, validation, excelData, consoleWarn>>
    /\ UNCHANGED <<flowOutput, flowResult, response, retry, upload, history>>
    /\ UNCHANGED pipeVars

NextExport == ExportToExcel

SpecExport == InitExport /\ [][NextExport]_vars

(***************************************************************************)
(* formatStructuredDataForExcel applied to drawn inputs                    *)
(***************************************************************************)
InitFormat ==
    /\ dataPc = "input"
    /\ structuredData \in
           {NullData} \cup
           [isNull : {FALSE}, header : FmtHeaders,
            transactions : SeqsUpTo(FmtTransactions, MaxFmtTx), footer : FmtFooters]
    /\ DataIdle
    /\ PipeIdle

\* the console.warn calls after the matrix is assembled (env.ts 809-816)
FormatWarnings(sd) ==
    IF formatStructuredDataForExcel(sd) = NoDataMatrix THEN NoWarn
    ELSE LET v == validateTransactionData(sd.transactions, sd.footer)
         IN [issues |-> ~v.isValid /\ Len(v.issues) > 0,
             accuracy |-> Len(v.accuracyWarnings) > 0]

Format ==
    /\ dataPc = "input"
    /\ excelData' = formatStructuredDataForExcel(structuredData)
    /\ consoleWarn' = FormatWarnings(structuredData)
    /\ dataPc' = "formatted"
    /\ UNCHANGED <<structuredData, validation>>
    /\ UNCHANGED fnVars
    /\ UNCHANGED pipeVars

NextFormat == Format

SpecFormat == InitFormat /\ [][NextFormat]_vars

\* the formatted matrix is exported (page.tsx handleDownload)
NextSheet == Format \/ ExportToExcel

SpecSheet == InitFormat /\ [][NextSheet]_vars

(***************************************************************************)
(* Claims about validateTransactionData                                    *)
(***************************************************************************)
\* a string with at least one character
NonEmptyText(v) == v.t = "string" /\ v.s # <<>>

\* a string with at least one character that is no white space
NonBlankText(v) == v.t = "string" /\ \E i \in 1..Len(v.s) : ~IsSpace(v.s[i])

\* the non-blank date strings of the drawn transactions
InputDateSet ==
    {structuredData.transactions[i].date.s :
        i \in {j \in 1..Len(structuredData.transactions) :
                   NonBlankText(structuredData.transactions[j].date)}}

\* two date strings that are neighbours in code-unit order and parse to
\* instants more than 30 days apart
InputHasDateGap ==
    \E a \in InputDateSet, b \in InputDateSet :
        /\ StrLess(a, b)
        /\ ~\E c \in InputDateSet : StrLess(a, c) /\ StrLess(c, b)
        /\ ~ParseDate(a).nan /\ ~ParseDate(b).nan
        /\ Abs(ParseDate(b).days - ParseDate(a).days) > 30

\* C8 as stated: isValid is true exactly when every transaction has a
\* non-empty date and a non-empty description, for every sequence (the empty
\* one included) and whatever the footer.
C8_ValidIffFieldsPresent ==
    dataPc = "validated" =>
        (validation.isValid <=>
            \A i \in 1..Len(structuredData.transactions) :
                /\ NonEmptyText(structuredData.transactions[i].date)
                /\ NonEmptyText(structuredData.transactions[i].description))

\* C8 amended: isValid is true exactly when the sequence is not empty, every
\* transaction has a date and a description that are not blank after
\* trimming, and no two neighbouring sorted dates are more than 30 days
\* apart; the footer plays no part.
C8_ValidIffCompleteAndGapFree ==
    dataPc = "validated" =>
        (validation.isValid <=>
            /\ Len(structuredData.transactions) > 0
            /\ \A i \in 1..Len(structuredData.transactions) :
                   /\ NonBlankText(structuredData.transactions[i].date)
                   /\ NonBlankText(structuredData.transactions[i].description)
            /\ ~InputHasDateGap)

\* C8 witness: a complete two-transaction sequence with a footer was validated
\* and found valid
C8_Witness ==
    /\ dataPc = "validated"
    /\ validation.isValid
    /\ Len(structuredData.transactions) = 2
    /\ structuredData.transactions[1].date # structuredData.transactions[2].date
    /\ structuredData.footer.present

\* the exact sum of the debits of the drawn transactions
InputDebitSum ==
    SumSeq([i \in 1..Len(structuredData.transactions) |->
               IF structuredData.transactions[i].debit.t = "number"
               THEN structuredData.transactions[i].debit.n ELSE 0])

\* how many "Total debits mismatch" warnings were returned
DebitMismatchCount ==
    Cardinality({i \in 1..Len(validation.accuracyWarnings) :
                    validation.accuracyWarnings[i].kind = "Total debits mismatch"})

ExpectedRow(t) ==
    <<IF NonEmptyText(t.date) THEN t.date ELSE Str(<<>>),
      IF NonEmptyText(t.description) THEN t.description ELSE Str(<<>>),
      IF t.debit.t = "number" THEN t.debit ELSE Null,
      IF t.credit.t = "number" THEN t.credit ELSE Null,
      IF t.balance.t = "number" THEN t.balance ELSE Null>>

\* C10 as stated: the result is the "no data" sentinel exactly when the
\* document has no transactions; otherwise it holds the 5-column header row
\* followed by one row per transaction in input order; it is never empty.
C10_SentinelIffNoTransactions ==
    dataPc = "formatted" =>
        LET txs == structuredData.transactions
            none == structuredData.isNull \/ Len(txs) = 0
        IN /\ excelData # <<>>
           /\ (excelData = NoDataMatrix) <=> none
           /\ ~none =>
                \E h \in 1..Len(excelData) :
                    /\ excelData[h] = transactionHeaders
                    /\ h + Len(txs) <= Len(excelData)
                    /\ \A i \in 1..Len(txs) : excelData[h + i] = ExpectedRow(txs[i])

\* a field counts as present when it holds a number or a non-empty string
PresentField(v) == v.t = "number" \/ (v.t = "string" /\ v.s # <<>>)

KeyValueRows(pairs) ==
    LET RECURSIVE rows(_)
        rows(i) == IF i > Len(pairs) THEN <<>>
                   ELSE (IF PresentField(pairs[i][2])
                         THEN << <<Str(pairs[i][1]), pairs[i][2]>> >> ELSE <<>>)
                        \o rows(i + 1)
    IN rows(1)

ExpectedHeaderSection(h) ==
    IF ~h.present THEN <<>>
    ELSE KeyValueRows(<< <<Labels.bankName, h.bankName>>,
                         <<Labels.accountNumber, h.accountNumber>>,
                         <<Labels.accountHolder, h.accountHolderName>>,
                         <<Labels.statementPeriod, h.statementPeriod>>,
                         <<Labels.statementDate, h.statementDate>>,
                         <<Labels.openingBalance, h.openingBalance>> >>)
         \o << <<>> >>

ExpectedFooterSection(f) ==
    IF ~f.present THEN <<>>
    ELSE << <<>> >>
         \o KeyValueRows(<< <<Labels.closingBalance, f.closingBalance>>,
                            <<Labels.totalDebits, f.totalDebits>>,
                            <<Labels.totalCredits, f.totalCredits>>,
                            <<Labels.totalWithdrawals, f.totalWithdrawals>>,
                            <<Labels.totalDeposits, f.totalDeposits>>,
                            <<Labels.summary, f.summary>> >>)

\* C11 as stated: for a document with at least one transaction the matrix
\* is, in this order, one key/value row per present header field and a blank
\* row, the row [Date, Description, Paid Out, Paid In, Balance], one row per
\* transaction with numbers kept as numbers, and, when a footer is present,
\* a blank row and one key/value row per present footer field.
C11_RowsInOrder ==
    (dataPc = "formatted" /\ ~structuredData.isNull
         /\ Len(structuredData.transactions) > 0) =>
        excelData =
            ExpectedHeaderSection(structuredData.header)
            \o << <<Str(Labels.date), Str(Labels.description), Str(Labels.paidOut),
                    Str(Labels.paidIn), Str(Labels.balance)>> >>
            \o [i \in 1..Len(structuredData.transactions) |->
                    ExpectedRow(structuredData.transactions[i])]
            \o ExpectedFooterSection(structuredData.footer)

\* the dates of the drawn transactions that are calendar dates, as listed
InputCalendarDates ==
    SelectSeq([i \in 1..Len(structuredData.transactions) |->
                   structuredData.transactions[i].date],
              LAMBDA v : v.t = "string" /\ ~ParseDate(v.s).nan)

RECURSIVE InsertByDay(_, _)
InsertByDay(d, sorted) ==
    IF sorted = <<>> THEN <<d>>
    ELSE IF ParseDate(d.s).days < ParseDate(Head(sorted).s).days
         THEN <<d>> \o sorted
         ELSE <<Head(sorted)>> \o InsertByDay(d, Tail(sorted))

RECURSIVE Chronological(_)
Chronological(ds) ==
    IF ds = <<>> THEN <<>> ELSE InsertByDay(Head(ds), Chronological(Tail(ds)))

\* the pairs of chronologically adjacent dates more than 30 days apart
ExpectedGapPairs ==
    LET ds == Chronological(InputCalendarDates)
        gap(j) == ParseDate(ds[j + 1].s).days - ParseDate(ds[j].s).days > 30
    IN [k \in 1..Cardinality({j \in 1..(Len(ds) - 1) : gap(j)}) |->
           LET j == CHOOSE j \in 1..(Len(ds) - 1) :
                        /\ gap(j)
                        /\ Cardinality({i \in 1..j : gap(i)}) = k
           IN <<ds[j].s, ds[j + 1].s>>]

\* the pairs named by the returned "Potential missing transactions" issues
ReportedGapPairs ==
    LET gaps == SelectSeq(validation.issues,
                          LAMBDA x : x.kind = "Potential missing transactions")
    IN [k \in 1..Len(gaps) |-> <<gaps[k].d1, gaps[k].d2>>]

\* C12: validateTransactionData reports one "Potential missing transactions
\* between D1 and D2" issue for each pair of chronologically adjacent dates
\* more than 30 days apart, in chronological order, and none for a pair 30
\* days or less apart, whatever the order in which the transactions are
\* listed.
C12_GapIssuePerDistantPair ==
    (dataPc = "validated" /\ Len(structuredData.transactions) > 0) =>
        ReportedGapPairs = ExpectedGapPairs

\* C12 witness: three transactions listed out of chronological order were
\* validated and the two gaps were reported in chronological order
C12_Witness ==
    /\ dataPc = "validated"
    /\ Len(structuredData.transactions) = 3
    /\ structuredData.transactions[1].date = Str(Dates.d0315)
    /\ structuredData.transactions[2].date = Str(Dates.d0101)
    /\ structuredData.transactions[3].date = Str(Dates.d0201)
    /\ ReportedGapPairs = << <<Dates.d0101, Dates.d0201>>, <<Dates.d0201, Dates.d0315>> >>

\* the drawn transactions with every amount removed
InputWithoutAmounts ==
    [i \in 1..Len(structuredData.transactions) |->
        [structuredData.transactions[i] EXCEPT !.debit = Undef, !.credit = Undef,
                                               !.balance = Null]]

\* C13: accuracy warnings never affect isValid: isValid = (issues is empty)
\* for every input, and isValid and issues are those of the same transactions
\* validated without a footer and without amounts.
C13_WarningsNeverAffectValidity ==
    dataPc = "validated" =>
        LET plain == validateTransactionData(InputWithoutAmounts, NoFooter)
        IN /\ validation.isValid = (validation.issues = <<>>)
           /\ validation.isValid = plain.isValid
           /\ validation.issues = plain.issues
           /\ plain.accuracyWarnings = <<>>

\* C13 witness: an input that was validated with a footer mismatch warning and
\* a precision warning and is valid
C13_Witness ==
    /\ dataPc = "validated"
    /\ validation.isValid
    /\ \E i \in 1..Len(validation.accuracyWarnings) :
           validation.accuracyWarnings[i].kind = "Total debits mismatch"
    /\ \E i \in 1..Len(validation.accuracyWarnings) :
           validation.accuracyWarnings[i].kind # "Total debits mismatch"

\* C14: structurePdfDataFlow returns exactly the transactions of the prompt
\* output whose date and description are not empty after trimming, in their
\* original relative order, and passes header and footer through unchanged.
C14_FlowKeepsCompleteTransactions ==
    flowResult.outcome = "returned" =>
        /\ flowResult.data.transactions =
               SelectSeq(flowOutput.transactions,
                         LAMBDA t : NonBlankText(t.date) /\ NonBlankText(t.description))
        /\ flowResult.data.header = flowOutput.header
        /\ flowResult.data.footer = flowOutput.footer

\* C14 witness: of three transactions the second, with a blank date, was
\* dropped and the two others were returned in their order
C14_Witness ==
    /\ flowResult.outcome = "returned"
    /\ Len(flowOutput.transactions) = 3
    /\ Len(flowResult.data.transactions) = 2
    /\ flowOutput.transactions[2].date = Str(<<" ">>)
    /\ flowResult.data.transactions[1] = flowOutput.transactions[1]
    /\ flowResult.data.transactions[2] = flowOutput.transactions[3]
    /\ flowOutput.transactions[1] # flowOutput.transactions[3]
    /\ flowOutput.header.present /\ flowOutput.footer.present

(***************************************************************************)
(* Claims about exportToExcel (specification SpecExport)                   *)
(***************************************************************************)
\* a sheet was built of the matrix (the matrix was not refused as empty)
SheetBuilt == dataPc = "exported" /\ Len(excelData) > 0

\* the positions of the matrix that hold a string or a number, from 1
PopulatedCells ==
    {rc \in (1..Len(excelData)) \X (1..5) :
        rc[2] <= Len(excelData[rc[1]]) /\ Defined(excelData[rc[1]][rc[2]])}

\* the position lies in a row of the table bounds below the header row
InTableBody(rc) ==
    LET b == findTransactionTableBounds(excelData)
    IN rc[1] - 1 >= b.startRow /\ rc[1] - 1 <= b.endRow /\ rc[1] - 1 # b.headerRow

\* a column-0 cell of the table body holding a YYYY-MM-DD calendar date
IsDateCell(rc) ==
    LET v == excelData[rc[1]][rc[2]]
    IN /\ InTableBody(rc) /\ rc[2] = 1
       /\ v.t = "string" /\ MatchesIsoDate(v.s) /\ ~ParseDate(v.s).nan

SheetCellAt(rc) == worksheet.cells[rc[1]][rc[2]]

\* C15 as stated: inside the table bounds the numbers of columns 2-4 are
\* numeric with the two-decimal format and the YYYY-MM-DD cells of column 0
\* are date cells; every other populated cell, in particular every populated
\* cell outside the table bounds, is text.
C15_OnlyTableCellsNumeric ==
    SheetBuilt =>
        \A rc \in PopulatedCells :
            IF InTableBody(rc) /\ rc[2] - 1 \in {2, 3, 4}
               /\ excelData[rc[1]][rc[2]].t = "number"
            THEN SheetCellAt(rc).t = "n" /\ SheetCellAt(rc).z = "#,##0.00"
            ELSE IF IsDateCell(rc) THEN SheetCellAt(rc).t = "d"
            ELSE SheetCellAt(rc).t = "s"

\* C15 amended: every populated cell that holds a number is numeric with the
\* two-decimal format, inside the table bounds and outside them; a column-0
\* string of the table body that is a YYYY-MM-DD calendar date is a date
\* cell with the format yyyy-mm-dd; every other populated cell is text with
\* no format; a null makes no cell.
C15_NumbersNumericEverywhere ==
    SheetBuilt =>
        /\ \A rc \in PopulatedCells :
               IF excelData[rc[1]][rc[2]].t = "number"
               THEN SheetCellAt(rc).t = "n" /\ SheetCellAt(rc).z = "#,##0.00"
               ELSE IF IsDateCell(rc)
               THEN SheetCellAt(rc).t = "d" /\ SheetCellAt(rc).z = "yyyy-mm-dd"
               ELSE SheetCellAt(rc).t = "s" /\ SheetCellAt(rc).z = ""
        /\ \A r \in 1..Len(excelData) : \A c \in 1..Len(excelData[r]) :
               worksheet.cells[r][c].present <=> <<r, c>> \in PopulatedCells

\* C15 witness: a sheet with a number above the table (the opening balance),
\* a date cell, a date-patterned cell that is no date and a number of the
\* table body
C15_Witness ==
    /\ SheetBuilt
    /\ \E rc \in PopulatedCells :
           ~InTableBody(rc) /\ rc[1] - 1 < findTransactionTableBounds(excelData).startRow
           /\ SheetCellAt(rc).t = "n"
    /\ \E rc \in PopulatedCells : SheetCellAt(rc).t = "d"
    /\ \E rc \in PopulatedCells :
           InTableBody(rc) /\ rc[2] = 1 /\ excelData[rc[1]][1] = Str(Dates.invalid)
           /\ SheetCellAt(rc).t = "s"
    /\ \E rc \in PopulatedCells : InTableBody(rc) /\ rc[2] = 3 /\ SheetCellAt(rc).t = "n"

\* C16: exportToExcel leaves the value of every cell as it is in the matrix,
\* except that a column-0 string of the table body that is a YYYY-MM-DD date
\* is replaced by that date; the matrix itself is not changed.
C16_ValuesUnchangedButDates ==
    /\ [](SheetBuilt =>
            \A rc \in PopulatedCells :
                SheetCellAt(rc).v =
                    IF IsDateCell(rc)
                    THEN [t |-> "date", s |-> <<>>,
                          n |-> ParseDate(excelData[rc[1]][rc[2]].s).days]
                    ELSE excelData[rc[1]][rc[2]])
    /\ [][excelData' = excelData]_vars

\* C16 witness: a sheet with a converted date in the table body and an equal
\* date string outside the table bounds that was left a string
C16_Witness ==
    /\ SheetBuilt
    /\ \E rc \in PopulatedCells : IsDateCell(rc) /\ SheetCellAt(rc).v.t = "date"
    /\ \E rc \in PopulatedCells :
           /\ ~InTableBody(rc) /\ rc[2] = 1
           /\ excelData[rc[1]][1] = Str(Dates.d0101)
           /\ SheetCellAt(rc).v = Str(Dates.d0101)

\* the round-trip example: header {bankName: ABC}, one transaction, no footer
ExampleMatrix ==
    << <<Str(Labels.bankName), Str(<<"A", "B", "C">>)>>,
       <<>>,
       <<Str(Labels.date), Str(Labels.description), Str(Labels.paidOut),
         Str(Labels.paidIn), Str(Labels.balance)>>,
       <<Str(Dates.d0101), Str(<<"X">>), Num(24500), Null, Num(39975500)>> >>

\* the rows, from 0, of at least 5 cells whose first cell reads "date" in
\* any case
DateHeaderRows ==
    {r \in 0..(Len(excelData) - 1) :
        /\ Len(excelData[r + 1]) >= 5
        /\ excelData[r + 1][1].t = "string"
        /\ ToLowerCase(excelData[r + 1][1].s) = <<"d", "a", "t", "e">>}

\* C17: the freeze split is at the row right below the detected transaction
\* header row; on the round-trip example matrix that row, the fourth of the
\* sheet, holds the date cell, and its numbers in columns 2-4 are numeric
\* with the two-decimal format.
C17_FreezeBelowHeaderRow ==
    SheetBuilt =>
        /\ \A h \in DateHeaderRows :
               (\A k \in DateHeaderRows : h <= k) =>
                   /\ worksheet.freeze.ySplit = h + 1
                   /\ worksheet.freeze.topLeftRow = h + 1
        /\ excelData = ExampleMatrix =>
               /\ worksheet.freeze.ySplit = 3
               /\ worksheet.freeze.topLeftRow + 1 = 4
               /\ worksheet.cells[4][1].t = "d"
               /\ worksheet.cells[4][3].t = "n" /\ worksheet.cells[4][3].z = "#,##0.00"
               /\ ~worksheet.cells[4][4].present
               /\ worksheet.cells[4][5].t = "n" /\ worksheet.cells[4][5].z = "#,##0.00"

\* C17 witness: the sheet of the round-trip example matrix was built
C17_Witness ==
    /\ SheetBuilt
    /\ excelData = ExampleMatrix
    /\ worksheet.freeze.ySplit = 3

(***************************************************************************)
(* Claims about overlapping runs (specification SpecOverlap)               *)
(***************************************************************************)
\* C18: of two runs in flight together, when one leaves (success, failure
\* or cancel) the other can still be cancelled by handleCancel and the
\* loading state and progress step shown are unchanged; and a cancel that
\* aborts the signal of one run leaves the signal of the other alone.
C18_OverlappingRunsIndependent ==
    [][\A q \in 1..MaxRuns : \A r \in (1..MaxRuns) \ {q} :
           /\ (InFlight(q) /\ InFlight(r) /\ overlap'.runs[q].pc = "done") =>
                  /\ overlap'.ref = r
                  /\ isLoading' = isLoading
                  /\ loadingStep' = loadingStep
           /\ (~overlap.runs[q].aborted /\ overlap'.runs[q].aborted) =>
                  overlap'.runs[r].aborted = overlap.runs[r].aborted]_vars

(***************************************************************************)
(* Claims about the error-handling entry points (specification SpecErrors) *)
(***************************************************************************)
\* C19: a call of createErrorResponse or handleError with a
\* ProcessingCancelledError makes no logError call and produces no toast,
\* and leaves the error state null.
C19_CancellationNeverLoggedOrShown ==
    [][(response'.calls # response.calls /\ isProcessingCancelledError(response'.error)) =>
           /\ logged' = logged
           /\ toasts' = toasts
           /\ error' = NoError]_vars

(***************************************************************************)
(* Claims about a failing release (specification Spec)                     *)
(***************************************************************************)
\* C20: when pdf.destroy() fails in extractTextFromPdf or
\* convertPdfPagesToImageUrisIncremental, the failure is logged with one
\* console.warn and nothing else changes: the call returns exactly when its
\* page loop had ended, and otherwise throws the classified error of what
\* went wrong in the try block, never the release error.
C20_ReleaseFailureOnlyLogged ==
    \A call \in PdfCalls :
        /\ call.warned = (IF call.destroyThrows /\ call.destroyCalls = 1 THEN 1 ELSE 0)
        /\ (call.destroyThrows /\ call.destroyCalls = 1) =>
               /\ call.outcome = "ok" <=> call.page > numPages
               /\ call.outcome # "ok" =>
                      /\ call.thrown # DestroyError
                      /\ call.outcome = OutcomeOf(call.thrown)
                      /\ call.thrown \in
                             {ExtractCatch(e, a) : e \in PdfErrors, a \in BOOLEAN} \cup
                             {ConvertCatch(e, a) :
                                 e \in PdfErrors \cup ActionErrors \cup
                                       {Err.noCanvasContext,
                                        ProcessingCancelledError("Processing was cancelled")},
                                 a \in BOOLEAN}

\* C20 witness: the release failed in both calls of one run; the extraction
\* returned its text all the same and the conversion threw its own error
C20_Witness ==
    /\ ext.destroyThrows /\ ext.warned = 1 /\ ext.outcome = "ok"
    /\ directText = Trim(ext.text)
    /\ ocr.destroyThrows /\ ocr.warned = 1 /\ ocr.outcome = "error"
    /\ pc = "done" /\ hist.outcome = "error"

C22_CanvasReleasedOnEveryPath ==
    /\ Settled(ocr) => ocr.canvasLive = 0
    /\ pc = "ocr_getPage" => ocr.canvasLive = 0

(***************************************************************************)
(* Claims about the table bounds of a formatted matrix (SpecSheet)         *)
(***************************************************************************)
\* the rows of the formatted matrix, from 0, that are the table header row
TableHeaderRows ==
    {r \in 0..(Len(excelData) - 1) : excelData[r + 1] = transactionHeaders}

\* C23: for the matrix formatted of a document with at least one transaction
\* and a footer, the table bounds have the row [Date, Description, Paid Out,
\* Paid In, Balance] as header row and the last transaction row as end row,
\* so that the blank row and the footer rows are outside the bounds.
C23_BoundsEndAtLastTransaction ==
    (/\ SheetBuilt
     /\ ~structuredData.isNull
     /\ Len(structuredData.transactions) >= 1
     /\ structuredData.footer.present
     /\ excelData # NoDataMatrix) =>
        /\ worksheet.tableBounds.headerRow \in TableHeaderRows
        /\ worksheet.tableBounds.endRow =
               worksheet.tableBounds.headerRow + Len(structuredData.transactions)

(***************************************************************************)
(* Claims about the column widths (specification SpecExport)               *)
(***************************************************************************)
\* the length of the longest text of a populated cell of column c (from 1)
LongestText(c) ==
    LET lens == {Len(CellToString(excelData[rc[1]][rc[2]])) :
                    rc \in {p \in PopulatedCells : p[2] = c}}
    IN IF lens = {} THEN 0 ELSE CHOOSE n \in lens : \A k \in lens : k <= n

\* C24: the width of every column is the longest cell text of the column
\* plus 2, at most 50, at least 10 and at least the fixed minimum of the
\* column (12, 40, 15, 15, 18 for the columns 0-4): it depends on the
\* longest cell only, not on how many rows are populated, and lies between
\* 10 and 50.
C24_WidthFromLongestCell ==
    SheetBuilt =>
        \A c \in 1..Len(worksheet.cols) :
            LET fixed == CASE c = 1 -> 12 [] c = 2 -> 40 [] c \in {3, 4} -> 15
                           [] c = 5 -> 18 [] OTHER -> 10
            IN /\ worksheet.cols[c] = Max(fixed, Max(10, Min(LongestText(c) + 2, 50)))
               /\ worksheet.cols[c] >= 10 /\ worksheet.cols[c] <= 50

(***************************************************************************)
(* Claims about handleAsyncError (specification SpecRetry)                 *)
(***************************************************************************)
\* what every state of a call of handleAsyncError satisfies
RetryInvariant ==
    /\ retry.calls <= retry.retries + 1
    /\ retry.calls = Len(retry.failures)
                     + (IF retry.pc \in {"calling", "resolved"} THEN 1 ELSE 0)
    /\ \A i \in 1..Len(retry.failures) :
           i < retry.calls => retry.failures[i].cls = "NetworkError"
    /\ retry.pc # "rejected" => retry.onErrorCalls = <<>> /\ logged = <<>>
    /\ retry.pc = "rejected" =>
           /\ retry.thrown = retry.failures[retry.calls]
           /\ IF retry.hasOnError
              THEN /\ logged = <<>>
                   /\ retry.onErrorCalls =
                          << [error |-> retry.thrown, attempt |-> retry.calls] >>
              ELSE /\ retry.onErrorCalls = <<>>
                   /\ Len(logged) = 1 /\ logged[1].error = retry.thrown

\* C25: handleAsyncError with retries = n >= 0 invokes fn at most n + 1
\* times, again only after a failure that is retryable, resolves on the first
\* success with no further invocation, otherwise rejects with the error of
\* the last invocation after exactly one onError call (or one logError call
\* when no onError is given); and every call settles.
C25_RetriesBoundedAndSettles ==
    /\ []RetryInvariant
    /\ (retry.pc # "idle") ~> (retry.pc \in {"resolved", "rejected"})

\* C25 witness: a call with the most retries rejected after the last of its
\* invocations failed with a retryable error
C25_Witness ==
    /\ retry.pc = "rejected"
    /\ retry.retries = MaxRetries
    /\ retry.calls = MaxRetries + 1
    /\ retry.thrown.cls = "NetworkError"
    /\ retry.hasOnError

(***************************************************************************)
(* Claims about uploadPdfAndGetCsv (specification SpecUpload)              *)
(***************************************************************************)
\* C26: once a status request was answered NOT_FOUND, FORBIDDEN or ERROR,
\* with or without a message, the call has rejected with the error of that
\* answer and makes no further status request.
C26_PermanentAnswerStopsPolling ==
    upload.permanent =>
        /\ upload.pc = "rejected"
        /\ upload.thrown = getDownloadURL(upload.answer)

\* what every state of a call of uploadPdfAndGetCsv satisfies
UploadInvariant ==
    /\ upload.uploads <= 1
    /\ upload.requests > 0 => upload.uploads = 1
    /\ upload.requests <= 10
    /\ upload.pc = "resolved" =>
           upload.answer.status = "READY" /\ upload.result = "downloadUrl"
    /\ (upload.pc = "rejected" /\ upload.requests = 10 /\ upload.sleeps = 10) =>
           upload.thrown = "Timed out waiting for CSV processing"
    /\ upload.thrown = "Timed out waiting for CSV processing" =>
           upload.requests = 10 /\ upload.sleeps = 10

\* C27: uploadPdfAndGetCsv uploads the PDF once and makes at most 10 status
\* requests; it returns the download URL on the first READY answer; when all
\* 10 requests were answered otherwise and retried it rejects with 'Timed out
\* waiting for CSV processing'; and every call settles.
C27_AtMostTenStatusRequests ==
    /\ []UploadInvariant
    /\ (upload.pc # "idle") ~> (upload.pc \in {"resolved", "rejected"})

\* C27 witness: a call that timed out after 10 status requests
C27_Witness ==
    /\ upload.pc = "rejected"
    /\ upload.uploads = 1
    /\ upload.requests = 10
    /\ upload.thrown = "Timed out waiting for CSV processing"

(***************************************************************************)
(* Claims about the conversion count and the loading state (specifications *)
(* Spec and SpecSettles)                                                   *)
(***************************************************************************)
RunSettled == pc = "done"

\* the count of recordConversion calls against how the run went
ConversionCounted ==
    /\ recordConversionCalls <= 1
    /\ hist.outcome \in {"none", "cancelled", "error"} => recordConversionCalls = 0
    /\ (RunSettled /\ hist.outcome = "success") =>
           recordConversionCalls = 1 /\ excelReadyData # NoExcel
    /\ (RunSettled /\ excelReadyData # NoExcel) => recordConversionCalls = 1

\* a call that the limit check refuses: the only step taken while no run is
\* in flight that does not start one
RefusedCall == pc \in {"idle", "done"} /\ pc' = pc

\* C28: recordConversion is called exactly once in a run that publishes a
\* table and never in a run that is refused by the limit check, is cancelled
\* or fails; a refused call starts no processing and leaves isLoading, error,
\* selectedFile and excelReadyData as they were.
C28_ConversionCountedOncePerTable ==
    /\ []ConversionCounted
    /\ [][RefusedCall =>
              /\ showLimitDialog'
              /\ UNCHANGED <<isLoading, error, selectedFile, excelReadyData,
                             abortControllerRef, loadingStep, recordConversionCalls>>]_vars

\* C28 witness: a run that published a table and counted it, with a call
\* refused by the limit check before or after it
C28_Witness ==
    /\ RunSettled
    /\ hist.outcome = "success"
    /\ hist.limitRefused
    /\ excelReadyData # NoExcel
    /\ recordConversionCalls = 1

\* the state a settled run leaves behind
SettledState ==
    RunSettled =>
        /\ ~isLoading
        /\ loadingStep = Step("")
        /\ ~abortControllerRef
        /\ hist.outcome \in {"success", "cancelled", "error"}
        /\ hist.outcome = "cancelled" => error = NoError
        /\ hist.outcome \in {"cancelled", "error"} =>
               ~selectedFile /\ excelReadyData = NoExcel

\* C29: every run of handleFileSelect that starts processing settles; when it
\* has settled isLoading is false, loadingStep is empty and abortControllerRef
\* is null, after a cancelled run error is null, and after a cancelled or
\* failed run selectedFile and excelReadyData are null.
C29_EveryRunLeavesLoadingState ==
    /\ []SettledState
    /\ isLoading ~> (RunSettled /\ ~isLoading)

\* C29 witness: a run cancelled while the OCR fallback was at work has settled
C29_Witness ==
    /\ RunSettled
    /\ hist.outcome = "cancelled"
    /\ hist.usedOcr
    /\ ~isLoading
    /\ toasts # <<>>

(***************************************************************************)
(* Claims about the download history (specification SpecDownload)          *)
(***************************************************************************)
\* what the stored history satisfies after every write
HistoryInvariant ==
    LET files == history.files
    IN /\ Len(files) <= 12
       /\ \A i, j \in 1..Len(files) :
              i < j => files[i].timestamp >= files[j].timestamp
       /\ \A i \in 1..Len(files) :
              files[1].timestamp - files[i].timestamp < 86400000
       /\ history.written > 0 => Len(files) >= 1

\* a handleDownload call wrote the history in this step
HistoryWritten == history'.written = history.written + 1

\* C30: after any sequence of handleDownload calls the stored history holds
\* at most 12 files, newest first, with the file just downloaded at the head,
\* and no file that was 24 hours old or older when the history was written.
C30_HistoryBoundedFreshNewestFirst ==
    /\ []HistoryInvariant
    /\ [][HistoryWritten =>
              /\ history'.now >= history.now
              /\ Head(history'.files) = [timestamp |-> history'.now]
              /\ \A i \in 1..Len(history'.files) :
                     history'.now - history'.files[i].timestamp < 86400000
              /\ \A i \in 2..Len(history'.files) :
                     \E j \in 1..Len(history.files) :
                         history'.files[i] = history.files[j]]_vars

\* C30 witness: 12 files stored by 13 writes, the oldest of them one
\* millisecond short of 24 hours: the thirteenth write dropped a file
C30_Witness ==
    /\ Len(history.files) = 12
    /\ history.written = 13
    /\ history.toast = "File Saved"
    /\ history.now = 86400000 - 1
    /\ history.files[1].timestamp - history.files[12].timestamp = 86400000 - 1

====
